---------------------------- MODULE Spec2Model ----------------------------
(***************************************************************************)
(* A model of MAG: the policy engine (PolicyChecker / PolicySettings), the *)
(* todo store (TodoManager), the coordinator (Coordinator) with its        *)
(* execution state machine, and the interactive shell (CLIInterface).      *)
(*                                                                         *)
(* Strings are sequences of one-character strings, so that find, substr    *)
(* and prefix tests are computed the way std::string computes them.        *)
(***************************************************************************)
EXTENDS Integers, Sequences, FiniteSets, TLC

(***************************************************************************)
(* Bounds of the model.                                                    *)
(***************************************************************************)
MaxPathLen == 5
MaxTodos == 2
MaxStdin == 2
MaxClock == 1
MaxStore == 3
MaxId == 4
MaxCommandLen == 3
MaxRuns == 2
MaxMessages == 4
MaxSessionMessages == 2
MaxTrimMessages == 3
MaxTokens == 3

(***************************************************************************)
(* std::string primitives.                                                 *)
(***************************************************************************)
NPOS == -1

\* s.substr(pos) with a 0-based position
SubstrFrom(s, pos) ==
    IF pos >= Len(s) THEN <<>> ELSE SubSeq(s, pos + 1, Len(s))

\* s.substr(pos, n) with a 0-based position
Substr(s, pos, n) ==
    IF pos >= Len(s) THEN <<>>
    ELSE SubSeq(s, pos + 1, IF pos + n > Len(s) THEN Len(s) ELSE pos + n)

\* pat occurs in s at the 0-based position pos
OccursAt(s, pat, pos) ==
    /\ pos + Len(pat) <= Len(s)
    /\ \A k \in 1..Len(pat) : s[pos + k] = pat[k]

\* s.find(pat, from): the first 0-based position >= from, or NPOS
FindFrom(s, pat, from) ==
    LET hits == {p \in from..(Len(s) - Len(pat)) : OccursAt(s, pat, p)}
    IN  IF hits = {} THEN NPOS
        ELSE CHOOSE p \in hits : \A q \in hits : p <= q

\* s.find(pat)
Find(s, pat) == FindFrom(s, pat, 0)

\* s.find_first_of(chars, from)
FindFirstOf(s, chars, from) ==
    LET hits == {p \in from..(Len(s) - 1) : s[p + 1] \in chars}
    IN  IF hits = {} THEN NPOS
        ELSE CHOOSE p \in hits : \A q \in hits : p <= q

\* s.find_first_not_of(chars)
FindFirstNotOf(s, chars) ==
    LET hits == {p \in 0..(Len(s) - 1) : s[p + 1] \notin chars}
    IN  IF hits = {} THEN NPOS
        ELSE CHOOSE p \in hits : \A q \in hits : p <= q

\* s.rfind(c) for one character
RFindChar(s, c) ==
    LET hits == {p \in 0..(Len(s) - 1) : s[p + 1] = c}
    IN  IF hits = {} THEN NPOS
        ELSE CHOOSE p \in hits : \A q \in hits : p >= q

\* ::tolower on the letters the model uses
ToLowerChar(c) ==
    CASE c = "A" -> "a"
      [] c = "Y" -> "y"
      [] c = "R" -> "r"
      [] c = "M" -> "m"
      [] OTHER -> c

ToLower(s) == [i \in 1..Len(s) |-> ToLowerChar(s[i])]

\* every sequence over chars of length 1..n
RECURSIVE StringsUpTo(_, _)
StringsUpTo(chars, n) ==
    IF n = 0 THEN {<<>>}
    ELSE LET shorter == StringsUpTo(chars, n - 1)
         IN  shorter \cup {Append(s, c) : s \in {t \in shorter : Len(t) = n - 1}, c \in chars}

(***************************************************************************)
(* std::filesystem::path primitives (a filesystem without symbolic links). *)
(***************************************************************************)
SLASH == "/"
DOT == "."
DOTDOT == <<".", ".">>

\* the process's current working directory, Utils::get_current_working_directory
CWD == <<"/", "w">>

\* the components of a path, split at '/'; empty components are dropped
RECURSIVE SplitPath(_)
SplitPath(p) ==
    IF p = <<>> THEN <<>>
    ELSE LET cut == Find(p, <<SLASH>>)
         IN  IF cut = NPOS THEN <<p>>
             ELSE IF cut = 0 THEN SplitPath(SubstrFrom(p, 1))
             ELSE <<Substr(p, 0, cut)>> \o SplitPath(SubstrFrom(p, cut + 1))

\* std::filesystem::absolute of a non-empty path
Absolute(p) ==
    IF p[1] = SLASH THEN p ELSE CWD \o <<SLASH>> \o p

\* the stack of names left by resolving "." and ".." of an absolute path
RECURSIVE ResolveComponents(_, _)
ResolveComponents(comps, stack) ==
    IF comps = <<>> THEN stack
    ELSE LET c == Head(comps)
         IN  IF c = <<DOT>> THEN ResolveComponents(Tail(comps), stack)
             ELSE IF c = DOTDOT
                  THEN ResolveComponents(Tail(comps),
                           IF stack = <<>> THEN stack
                           ELSE SubSeq(stack, 1, Len(stack) - 1))
             ELSE ResolveComponents(Tail(comps), Append(stack, c))

RECURSIVE JoinPath(_)
JoinPath(stack) ==
    IF stack = <<>> THEN <<>>
    ELSE <<SLASH>> \o Head(stack) \o JoinPath(Tail(stack))

\* path::lexically_normal of an absolute path: a trailing separator is kept
\* when the path ends in '/', "." or ".."
LexicallyNormal(p) ==
    LET comps == SplitPath(p)
        stack == ResolveComponents(comps, <<>>)
        last  == IF comps = <<>> THEN <<>> ELSE comps[Len(comps)]
        dirEnd == \/ p[Len(p)] = SLASH
                  \/ last = <<DOT>>
                  \/ last = DOTDOT
    IN  IF stack = <<>> THEN <<SLASH>>
        ELSE JoinPath(stack) \o (IF dirEnd THEN <<SLASH>> ELSE <<>>)

\* path::extension: from the last '.' of the filename, empty for "." and ".."
\* and for a filename whose only '.' is its first character
Extension(p) ==
    LET cut  == RFindChar(p, SLASH)
        name == IF cut = NPOS THEN p ELSE SubstrFrom(p, cut + 1)
        dot  == RFindChar(name, DOT)
    IN  IF name = <<DOT>> \/ name = DOTDOT \/ dot = NPOS \/ dot = 0 THEN <<>>
        ELSE SubstrFrom(name, dot)

\* Utils::get_real_path: canonical() and the lexically_normal() fallback agree
\* when no component is a symbolic link
get_real_path(p) == LexicallyNormal(Absolute(p))

(***************************************************************************)
(* Policy documents (PolicySettings).  A document maps a tool name to its  *)
(* four CRUD sub-policies; a tool may be absent from the map.              *)
(***************************************************************************)
Operations == {"CREATE", "READ", "UPDATE", "DELETE"}
ToolNames == {"file_tool", "bash_tool"}

\* OperationPolicy(dirs): no command lists
OperationPolicy(dirs) ==
    [allowed_directories |-> dirs, allowed_commands |-> <<>>, blocked_commands |-> <<>>]

\* the bash_tool create sub-policy with its command lists
BashCreatePolicy(allowed, blocked) ==
    [allowed_directories |-> <<>>, allowed_commands |-> allowed, blocked_commands |-> blocked]

ToolPolicy(c, r, u, d) == [CREATE |-> c, READ |-> r, UPDATE |-> u, DELETE |-> d]

DirS == <<"s", "/">>
DirW == <<"w", "/">>
ExtW == <<".", "w">>
CmdLs == <<"l", "s">>
CmdRm == <<"r", "m">>
CmdMake == <<"m", "a", "k", "e">>

\* bash_tool as PolicySettings() builds it: allowed and blocked command lists
DefaultBashTool ==
    ToolPolicy(BashCreatePolicy(<<CmdMake, CmdLs>>, <<CmdRm>>),
               OperationPolicy(<<>>), OperationPolicy(<<>>), OperationPolicy(<<>>))

\* the shape of the default document: create, read and update under the
\* same directory, delete disabled
DocDefault ==
    [blocked_extensions |-> {ExtW},
     tools |-> [t \in ToolNames |->
        IF t = "file_tool"
        THEN ToolPolicy(OperationPolicy(<<DirS>>), OperationPolicy(<<DirS>>),
                        OperationPolicy(<<DirS>>), OperationPolicy(<<>>))
        ELSE DefaultBashTool]]

\* an edited document: reading is allowed in more directories than creating
DocWideRead ==
    [blocked_extensions |-> {ExtW},
     tools |-> [t \in ToolNames |->
        IF t = "file_tool"
        THEN ToolPolicy(OperationPolicy(<<DirS>>), OperationPolicy(<<DirS, DirW>>),
                        OperationPolicy(<<DirS>>), OperationPolicy(<<>>))
        ELSE DefaultBashTool]]

\* an edited document: the empty prefix allows any directory, and any command
\* not blocked may run
DocAnyDir ==
    [blocked_extensions |-> {},
     tools |-> [t \in ToolNames |->
        IF t = "file_tool"
        THEN ToolPolicy(OperationPolicy(<<DirS>>), OperationPolicy(<< <<>> >>),
                        OperationPolicy(<< <<>> >>), OperationPolicy(<<>>))
        ELSE ToolPolicy(BashCreatePolicy(<<>>, <<CmdRm>>),
                        OperationPolicy(<<>>), OperationPolicy(<<>>), OperationPolicy(<<>>))]]

\* an edited document without a bash_tool entry
DocNoBash ==
    [blocked_extensions |-> {ExtW},
     tools |-> [t \in {"file_tool"} |->
        ToolPolicy(OperationPolicy(<<DirS>>), OperationPolicy(<<DirS>>),
                   OperationPolicy(<<>>), OperationPolicy(<<>>))]]

\* a document that validation rejects: a directory without the final '/'
DocBadDir ==
    [blocked_extensions |-> {ExtW},
     tools |-> [t \in {"file_tool"} |->
        ToolPolicy(OperationPolicy(<< <<"s">> >>), OperationPolicy(<< <<"s">> >>),
                   OperationPolicy(<<>>), OperationPolicy(<<>>))]]

\* PolicySettings::validate, the checks on extensions and directories
validate(doc) ==
    /\ \A ext \in doc.blocked_extensions : ext # <<>> /\ ext[1] = DOT
    /\ \A t \in DOMAIN doc.tools : \A op \in Operations :
          LET dirs == doc.tools[t][op].allowed_directories
          IN  \A i \in 1..Len(dirs) :
                 \/ dirs[i] = <<>>
                 \/ /\ dirs[i][Len(dirs[i])] = SLASH
                    /\ Find(dirs[i], DOTDOT) = NPOS

\* the documents PolicyConfig::load_or_create can hand to the PolicyChecker
PolicyDocs == {d \in {DocDefault, DocWideRead, DocAnyDir, DocNoBash, DocBadDir} : validate(d)}

(***************************************************************************)
(* The policy engine (PolicyChecker).                                      *)
(***************************************************************************)
\* PolicySettings::is_operation_allowed
is_operation_allowed(doc, tool, op, path) ==
    IF tool \notin DOMAIN doc.tools THEN FALSE
    ELSE LET dirs == doc.tools[tool][op].allowed_directories
         IN  IF dirs = <<>> THEN FALSE
             ELSE \E i \in 1..Len(dirs) : dirs[i] = <<>> \/ Find(path, dirs[i]) = 0

\* PolicyChecker::is_extension_blocked
is_extension_blocked(doc, path) ==
    LET extension == Extension(path)
    IN  IF extension = <<>> THEN FALSE ELSE extension \in doc.blocked_extensions

\* PolicyChecker::is_within_cwd: a string prefix test on the resolved path
is_within_cwd(path) ==
    Find(get_real_path(path), get_real_path(CWD)) = 0

\* PolicyChecker::is_allowed(tool, operation, path)
is_allowed(doc, tool, op, path) ==
    IF ~is_within_cwd(path) THEN FALSE
    ELSE IF is_extension_blocked(doc, path) THEN FALSE
    ELSE is_operation_allowed(doc, tool, op, path)

\* PolicyChecker::is_allowed(path), the legacy overload
is_allowed_path(doc, path) == is_allowed(doc, "file_tool", "READ", path)

\* PolicyChecker::is_bash_command_blocked
is_bash_command_blocked(doc, command) ==
    IF "bash_tool" \notin DOMAIN doc.tools THEN TRUE
    ELSE LET blocked == doc.tools["bash_tool"]["CREATE"].blocked_commands
         IN  \E i \in 1..Len(blocked) : Find(command, blocked[i]) # NPOS

\* PolicyChecker::is_bash_command_allowed
is_bash_command_allowed(doc, command) ==
    IF is_bash_command_blocked(doc, command) THEN FALSE
    ELSE IF "bash_tool" \notin DOMAIN doc.tools THEN FALSE
    ELSE LET allowed == doc.tools["bash_tool"]["CREATE"].allowed_commands
             space_pos == Find(command, <<" ">>)
             base_command == IF space_pos # NPOS THEN Substr(command, 0, space_pos)
                             ELSE command
         IN  IF allowed = <<>> THEN TRUE
             ELSE \E i \in 1..Len(allowed) : allowed[i] = base_command


(***************************************************************************)
(* State.                                                                  *)
(***************************************************************************)
VARIABLES
    query,                    \* one PolicyChecker::is_allowed call: arguments and result
    policy_checker_,          \* Coordinator::policy_checker_, the loaded document
    todos_,                   \* TodoManager::todos_
    next_id_,                 \* TodoManager::next_id_
    issued,                   \* the ids add_todo has returned so far, oldest first
    always_approve_,          \* Coordinator::always_approve_
    chat_mode_,               \* Coordinator::chat_mode_
    execution_state_,         \* Coordinator::execution_state_
    should_stop_execution_,   \* Coordinator::should_stop_execution_
    should_pause_execution_,  \* Coordinator::should_pause_execution_
    pc,                       \* where the coordinator's flow of control stands
    batch,                    \* locals of the running execute_* call
    command,                  \* the plan held by run() at the confirmation prompt
    result,                   \* how execute_single_todo left: returned or threw
    file_requests,            \* requests the current operation sent to the file tool
    bash_requests,            \* requests the current operation sent to the bash tool
    output,                   \* the status line the running run() printed last
    input,                    \* the line get_user_confirmation read, if it has read one
    stdin,                    \* lines typed at the terminal and not yet read
    filesystem,               \* the files and directories under the working directory
    current_working_directory_, \* BashToolService::current_working_directory_
    shell,                    \* the command lines popen has handed to the shell, oldest first
    conversation_manager_,    \* CLIInterface::conversation_manager_
    session_files,            \* the session files under .mag/conversations
    current_provider_,        \* Coordinator::current_provider_
    llm_socket,               \* the request and the reply between a requester and the adapter
    llm_client                \* the adapter service's LLMClient llm_client

polVars == <<query>>
todoVars == <<todos_, next_id_, issued>>
ctlVars == <<execution_state_, should_stop_execution_, should_pause_execution_>>
planVars == <<always_approve_, chat_mode_, command, output, input>>
reqVars == <<file_requests, bash_requests>>
toolVars == <<filesystem, current_working_directory_, shell>>
convVars == <<conversation_manager_, session_files, current_provider_>>
netVars == <<llm_socket, llm_client>>
vars == <<query, policy_checker_, todos_, next_id_, issued, always_approve_, chat_mode_,
          execution_state_, should_stop_execution_, should_pause_execution_,
          pc, batch, command, result, file_requests, bash_requests, output, input, stdin,
          filesystem, current_working_directory_, shell,
          conversation_manager_, session_files, current_provider_,
          llm_socket, llm_client>>

(***************************************************************************)
(* The disk under the working directory: a file "a", a directory "s" and a *)
(* file "s/a".  A directory may have lost its search permission.           *)
(***************************************************************************)
FsPaths == {CWD \o <<"/", "a">>, CWD \o <<"/", "s">>, CWD \o <<"/", "s", "/", "a">>}
Contents == {<<>>, <<"x">>}

Absent == [kind |-> "absent", content |-> <<>>, search |-> TRUE]
File(content) == [kind |-> "file", content |-> content, search |-> TRUE]
Dir(search) == [kind |-> "dir", content |-> <<>>, search |-> search]
Nodes == {Absent} \cup {File(c) : c \in Contents} \cup {Dir(x) : x \in BOOLEAN}

\* path::parent_path of a path without a trailing separator
parent_path(p) ==
    LET cut == RFindChar(p, SLASH)
    IN  IF cut = NPOS THEN <<>>
        ELSE IF cut = 0 THEN <<SLASH>>
        ELSE Substr(p, 0, cut)

\* what a disk can hold: nothing lives under a name that is not a directory
Disks == {fs \in [FsPaths -> Nodes] :
             \A p \in FsPaths :
                (fs[p].kind # "absent" /\ parent_path(p) \in FsPaths)
                    => fs[parent_path(p)].kind = "dir"}

node_at(fs, p) == IF p \in FsPaths THEN fs[p] ELSE Absent

\* a process may look names up in the directory
searchable(fs, dir) == dir = CWD \/ (node_at(fs, dir).kind = "dir" /\ node_at(fs, dir).search)

\* stat(2) from the directory at: "found", "missing" (ENOENT, ENOTDIR) or
\* "denied" (EACCES, a directory on the way cannot be searched)
RECURSIVE stat_from(_, _, _)
stat_from(fs, at, comps) ==
    IF comps = <<>> THEN "found"
    ELSE LET next == at \o <<SLASH>> \o Head(comps)
         IN  IF ~searchable(fs, at) THEN "denied"
             ELSE IF node_at(fs, next).kind = "absent" THEN "missing"
             ELSE IF Len(comps) > 1 /\ node_at(fs, next).kind = "file" THEN "missing"
             ELSE stat_from(fs, next, Tail(comps))

\* stat(2) on a relative path of the process; the empty path is ENOENT
stat(fs, p) == IF p = <<>> THEN "missing" ELSE stat_from(fs, CWD, SplitPath(p))

\* Utils::file_exists, std::filesystem::exists(path): "yes", "no", or
\* "throws" when the status of the path cannot be determined
file_exists(fs, p) ==
    CASE stat(fs, p) = "found" -> "yes"
      [] stat(fs, p) = "missing" -> "no"
      [] OTHER -> "throws"

\* Utils::get_file_size
get_file_size(content) == Len(content)

(***************************************************************************)
(* The file tool (FileTool).                                               *)
(***************************************************************************)
FilePaths == {<<>>, <<"a">>, <<"s">>, <<"s", "/", "a">>}

Description(phrase, path, bytes) == [phrase |-> phrase, path |-> path, bytes |-> bytes]
NoDescription == Description("", <<>>, 0)

\* FileTool::generate_dry_run_description; it throws when file_exists throws
generate_dry_run_description(fs, path, content) ==
    IF file_exists(fs, path) = "yes"
    THEN Description("Will overwrite existing file", path, get_file_size(content))
    ELSE Description("Will create new file", path, get_file_size(content))

\* FileTool::generate_apply_description
generate_apply_description(path, content) ==
    Description("Successfully wrote", path, get_file_size(content))

\* the outcome of a call that may change the disk
Disk(ok, fs) == [ok |-> ok, fs |-> fs]

\* std::filesystem::create_directories of a directory that does not exist
RECURSIVE make_directories(_, _, _)
make_directories(fs, at, comps) ==
    IF comps = <<>> THEN Disk(TRUE, fs)
    ELSE LET next == at \o <<SLASH>> \o Head(comps)
         IN  IF ~searchable(fs, at) \/ next \notin FsPaths THEN Disk(FALSE, fs)
             ELSE IF fs[next].kind = "file" THEN Disk(FALSE, fs)
             ELSE IF fs[next].kind = "dir" THEN make_directories(fs, next, Tail(comps))
             ELSE make_directories([fs EXCEPT ![next] = Dir(TRUE)], next, Tail(comps))

\* Utils::create_directories(file_path): whether the parent directory is
\* there afterwards, and the disk afterwards
create_directories(fs, file_path) ==
    LET parent == parent_path(file_path)
    IN  IF parent = <<>> THEN Disk(TRUE, fs)
        ELSE IF file_exists(fs, parent) = "throws" THEN Disk(FALSE, fs)
        ELSE IF file_exists(fs, parent) = "yes" THEN Disk(TRUE, fs)
        ELSE make_directories(fs, CWD, SplitPath(parent))

\* std::ofstream file(path); file << content: whether the file could be
\* opened for writing, and the disk afterwards
write_file(fs, path, content) ==
    LET target == CWD \o <<SLASH>> \o path
        parent == parent_path(target)
    IN  IF path = <<>> \/ target \notin FsPaths THEN Disk(FALSE, fs)
        ELSE IF parent # CWD /\ stat(fs, parent_path(path)) # "found" THEN Disk(FALSE, fs)
        ELSE IF ~searchable(fs, parent) THEN Disk(FALSE, fs)
        ELSE IF fs[target].kind = "dir" THEN Disk(FALSE, fs)
        ELSE Disk(TRUE, [fs EXCEPT ![target] = File(content)])

\* the answer of a file tool call and the arguments it was given
FileAnswer(name, path, content, success, description) ==
    [pc |-> name, path |-> path, content |-> content, success |-> success,
     description |-> description]

\* a dry run that prepares the parent directory the way apply does: the
\* fault that DryRunReportsAndTouchesNothing excludes
FileTool_dry_run_creating_parent(path, content) ==
    /\ query' = IF file_exists(filesystem, path) = "throws"
                THEN FileAnswer("dry_run", path, content, FALSE, NoDescription)
                ELSE FileAnswer("dry_run", path, content, TRUE,
                                generate_dry_run_description(filesystem, path, content))
    /\ filesystem' = create_directories(filesystem, path).fs

\* FileTool::dry_run(path, content)
FileTool_dry_run(path, content) ==
    /\ query' = IF file_exists(filesystem, path) = "throws"
                THEN FileAnswer("dry_run", path, content, FALSE, NoDescription)
                ELSE FileAnswer("dry_run", path, content, TRUE,
                                generate_dry_run_description(filesystem, path, content))
    /\ UNCHANGED filesystem

\* FileTool::apply(path, content)
FileTool_apply(path, content) ==
    LET dirs == create_directories(filesystem, path)
        written == write_file(dirs.fs, path, content)
    IN  IF dirs.ok /\ written.ok
        THEN /\ query' = FileAnswer("apply", path, content, TRUE,
                                    generate_apply_description(path, content))
             /\ filesystem' = written.fs
        ELSE /\ query' = FileAnswer("apply", path, content, FALSE, NoDescription)
             /\ filesystem' = dirs.fs

(***************************************************************************)
(* The bash tool (BashTool).                                               *)
(***************************************************************************)
\* what \s of the regular expressions matches
Whitespace == {" ", "\t", "\n"}
Lowercase == {"a", "b", "c", "d", "e", "f", "g", "h", "i", "j", "k", "l", "m",
              "n", "o", "p", "q", "r", "s", "t", "u", "v", "w", "x", "y", "z"}

\* BashTool::get_blocked_commands
get_blocked_commands ==
    << <<"r", "m", " ", "-", "r", "f", " ", "/">>, <<"s", "u", "d", "o", " ", "r", "m">>, <<"f", "o", "r", "m", "a", "t">>, <<"f", "d", "i", "s", "k">>, <<"m", "k", "f", "s">>, <<"d", "d", " ", "i", "f", "=", "/", "d", "e", "v", "/", "z", "e", "r", "o">>,
       <<":", "(", ")", "{", " ", ":", "|", ":", "&", " ", "}", ";", ":">>, <<"c", "h", "m", "o", "d", " ", "0", "0", "0">>, <<"c", "h", "o", "w", "n", " ", "r", "o", "o", "t">>, <<"p", "a", "s", "s", "w", "d">>, <<"s", "u", " ", "-">>,
       <<"s", "u", "d", "o", " ", "s", "u">>, <<"r", "e", "b", "o", "o", "t">>, <<"s", "h", "u", "t", "d", "o", "w", "n">>, <<"h", "a", "l", "t">>, <<"p", "o", "w", "e", "r", "o", "f", "f">>, <<"i", "n", "i", "t", " ", "0">>,
       <<"i", "n", "i", "t", " ", "6">> >>

\* \s* : nothing but whitespace
spaces(gap) == \A k \in 1..Len(gap) : gap[k] \in Whitespace

\* .* : nothing that ends a line
same_line(gap) == \A k \in 1..Len(gap) : gap[k] # "\n"

\* \s+.* : whitespace first, then nothing that ends a line
spaces_then_line(gap) ==
    \E n \in 1..Len(gap) :
       /\ \A k \in 1..n : gap[k] \in Whitespace
       /\ \A k \in (n + 1)..Len(gap) : gap[k] # "\n"

\* [^)]* : no closing parenthesis
unclosed(gap) == \A k \in 1..Len(gap) : gap[k] # ")"

\* what may stand between the two literal ends of a pattern
gap_matches(kind, gap) ==
    CASE kind = "spaces" -> spaces(gap)
      [] kind = "same_line" -> same_line(gap)
      [] kind = "spaces_then_line" -> spaces_then_line(gap)
      [] kind = "unclosed" -> unclosed(gap)

\* std::regex_search for a pattern "first gap second" whose two ends are
\* literal text, in a text already folded to lower case
SearchGap(t, first, second, kind) ==
    \E i \in 0..Len(t) :
       /\ OccursAt(t, first, i)
       /\ \E j \in (i + Len(first))..Len(t) :
             /\ OccursAt(t, second, j)
             /\ gap_matches(kind, Substr(t, i + Len(first), j - i - Len(first)))

\* std::regex_search for "first" followed by one character of a class
SearchClass(t, first, class) ==
    \E i \in 0..(Len(t) - Len(first) - 1) :
       OccursAt(t, first, i) /\ t[i + Len(first) + 1] \in class

\* BashTool::contains_dangerous_pattern over BashTool::get_dangerous_patterns;
\* the patterns are matched with std::regex_constants::icase
contains_dangerous_pattern(bash_command) ==
    LET t == ToLower(bash_command)
    IN  \/ SearchGap(t, <<">">>, <<"/", "d", "e", "v", "/">>, "spaces")
        \/ SearchClass(t, <<"/", "d", "e", "v", "/", "s", "d">>, Lowercase)
        \/ SearchGap(t, <<"r", "m">>, <<"-", "r", "f">>, "spaces_then_line")
        \/ SearchGap(t, <<"|">>, <<"r", "m">>, "same_line")
        \/ SearchGap(t, <<";">>, <<"r", "m">>, "spaces")
        \/ SearchGap(t, <<"&", "&">>, <<"r", "m">>, "same_line")
        \/ SearchGap(t, <<"$", "(">>, <<"r", "m">>, "unclosed")

\* BashTool::is_command_allowed
is_command_allowed(bash_command) ==
    LET blocked == get_blocked_commands
        cmd_lower == ToLower(bash_command)
    IN  /\ \A i \in 1..Len(blocked) :
              /\ Find(cmd_lower, blocked[i]) # 0
              /\ Find(cmd_lower, <<" ">> \o blocked[i]) = NPOS
        /\ ~contains_dangerous_pattern(bash_command)

(***************************************************************************)
(* /bin/sh on the command lines of the model: simple commands cd, rm and   *)
(* ls joined by ';'.                                                       *)
(***************************************************************************)
\* the simple commands of a command line, split at ';'
RECURSIVE simple_commands(_)
simple_commands(line) ==
    LET cut == Find(line, <<";">>)
    IN  IF cut = NPOS THEN <<line>>
        ELSE <<Substr(line, 0, cut)>> \o simple_commands(SubstrFrom(line, cut + 1))

\* the directory named by a cd argument, from the directory dir
cd_to(dir, name) == IF name # <<>> /\ name[1] = SLASH THEN name ELSE dir \o <<SLASH>> \o name

\* a process of the shell may make the directory its working directory
enterable(fs, dir) == dir = CWD \/ (node_at(fs, dir).kind = "dir" /\ node_at(fs, dir).search)

\* the shell's state: its working directory, the disk, and the exit status
\* of the last command it ran
Sh(pwd, fs, status) == [pwd |-> pwd, fs |-> fs, status |-> status]

\* one simple command
sh_simple(state, simple) ==
    IF Find(simple, <<"c", "d", " ">>) = 0
    THEN LET dir == cd_to(state.pwd, SubstrFrom(simple, 3))
         IN  IF enterable(state.fs, dir) THEN Sh(dir, state.fs, 0)
             ELSE Sh(state.pwd, state.fs, 1)
    ELSE IF Find(simple, <<"r", "m", " ">>) = 0
    THEN LET target == cd_to(state.pwd, SubstrFrom(simple, 3))
         IN  IF /\ target \in FsPaths
                /\ state.fs[target].kind = "file"
                /\ searchable(state.fs, parent_path(target))
             THEN Sh(state.pwd, [state.fs EXCEPT ![target] = Absent], 0)
             ELSE Sh(state.pwd, state.fs, 1)
    ELSE Sh(state.pwd, state.fs, 0)

RECURSIVE sh_list(_, _)
sh_list(state, simples) ==
    IF simples = <<>> THEN state
    ELSE sh_list(sh_simple(state, Head(simples)), Tail(simples))

\* BashTool::capture_context_ as the constructor sets it; the service never
\* changes it
capture_context_ == TRUE

\* what popen does with: cd "working_directory" && command, followed by
\* ; echo marker$(pwd) when capture is on, in a shell started in the
\* directory of the service.  ran and command_status tell whether the
\* command itself ran and how it exited; status is the exit status of the
\* whole line, the one pclose returns
sh_line(entered, body, capture) ==
    [pwd |-> body.pwd, fs |-> body.fs, status |-> IF capture THEN 0 ELSE body.status,
     ran |-> entered, command_status |-> body.status]

\* the shell on the whole line: the body is the command after cd, or
\* nothing when the cd failed
sh(fs, working_directory, bash_command, capture) ==
    sh_line(enterable(fs, working_directory),
            IF enterable(fs, working_directory)
            THEN sh_list(Sh(working_directory, fs, 0), simple_commands(bash_command))
            ELSE Sh(CWD, fs, 1),
            capture)

\* what happened at popen: whether the call reached it, whether the shell
\* ran the command, and the exit status of the command itself
Popen(reached, ran, command_status) ==
    [reached |-> reached, ran |-> ran, command_status |-> command_status]

\* a command line handed to the shell: the command and the directory of the
\* line, the service's directory when the request came, who asked, the
\* directory the asker named, the directory the line left, what happened at
\* popen, and the exit code and success the result reports
ShellRun(bash_command, working_directory, persistent, by, asked, pwd, popen, exit_code,
         success) ==
    [command |-> bash_command, working_directory |-> working_directory,
     persistent |-> persistent, by |-> by, asked |-> asked, pwd |-> pwd,
     ran |-> popen.ran, command_status |-> popen.command_status,
     exit_code |-> exit_code, success |-> success]

\* a CommandResult, the disk the call left, and what happened at popen
CommandResult(success, exit_code, working_directory, pwd_after_execution, fs, popen) ==
    [success |-> success, exit_code |-> exit_code, working_directory |-> working_directory,
     pwd_after_execution |-> pwd_after_execution, fs |-> fs, popen |-> popen]

\* the CommandResult BashTool::execute_unix_command builds from what the
\* shell left, followed by capture_execution_context: the exit code is the
\* exit status of the line, and an empty captured directory is replaced by
\* the directory of the call
execute_unix_command_result(after, working_directory) ==
    CommandResult(after.status = 0, after.status, working_directory,
                  IF ~capture_context_ THEN <<>>
                  ELSE IF after.pwd = <<>> THEN working_directory ELSE after.pwd,
                  after.fs, Popen(TRUE, after.ran, after.command_status))

\* BashTool::execute_unix_command
execute_unix_command(fs, bash_command, working_directory) ==
    execute_unix_command_result(sh(fs, working_directory, bash_command, capture_context_),
                                working_directory)

\* an execute_command that goes to the shell without the security check: the
\* fault that DangerousNeverReachesShell excludes
BashTool_execute_command_unchecked(fs, bash_command, working_directory) ==
    LET work_dir == IF working_directory = <<>> THEN CWD ELSE working_directory
    IN  execute_unix_command(fs, bash_command, work_dir)

\* BashTool::execute_command: a refused command leaves every field of the
\* result but success, exit_code and error_message as constructed
BashTool_execute_command(fs, bash_command, working_directory) ==
    LET work_dir == IF working_directory = <<>> THEN CWD ELSE working_directory
    IN  IF ~is_command_allowed(bash_command)
        THEN CommandResult(FALSE, -1, <<>>, <<>>, fs, Popen(FALSE, FALSE, 0))
        ELSE execute_unix_command(fs, bash_command, work_dir)

(***************************************************************************)
(* The bash tool service (BashToolService) and the coordinator's request   *)
(* to it.                                                                  *)
(***************************************************************************)
BashCommands == {<<"l", "s">>, <<"c", "d", " ", "s">>, <<"r", "m", " ", "a">>, <<"c", "d", " ", "s", ";", "r", "m", " ", "a">>, <<"l", "s", "|", "R", "M", " ", "a">>, <<"h", "a", "l", "t">>}
WorkingDirectories == {<<>>, CWD, CWD \o <<"/", "s">>}

\* the member working_directory of a request, if the request has one
Field(present, value) == [present |-> present, value |-> value]
NoField == Field(FALSE, <<>>)

\* the disk and the service as the other specifications leave them
DiskAtStart ==
    [p \in FsPaths |-> IF p = CWD \o <<"/", "s">> THEN Dir(TRUE) ELSE File(<<"x">>)]

InitTools ==
    /\ filesystem = DiskAtStart
    /\ current_working_directory_ = CWD
    /\ shell = <<>>

\* the answer of a bash tool call and the command it was given
BashAnswer(name, bash_command, success, exit_code, before, after) ==
    [pc |-> name, command |-> bash_command, success |-> success, exit_code |-> exit_code,
     working_directory |-> before, pwd_after_execution |-> after]

\* the rest of BashToolService::handle_execute_command, once the tool has
\* answered: the service follows the directory the command left
respond_execute_command(name, bash_command, asked, answer) ==
    /\ current_working_directory_' =
          IF answer.pwd_after_execution # <<>> THEN answer.pwd_after_execution
          ELSE current_working_directory_
    /\ filesystem' = answer.fs
    /\ shell' = IF answer.popen.reached
                THEN Append(shell, ShellRun(bash_command, answer.working_directory,
                                            current_working_directory_, name, asked,
                                            answer.pwd_after_execution, answer.popen,
                                            answer.exit_code, answer.success))
                ELSE shell
    /\ query' = BashAnswer(name, bash_command, answer.success, answer.exit_code,
                           answer.working_directory, answer.pwd_after_execution)

\* BashToolService::handle_execute_command; json::empty() is false for every
\* string, so a member working_directory is used even when it is ""
handle_execute_command(name, bash_command, field, asked) ==
    respond_execute_command(name, bash_command, asked,
        BashTool_execute_command(filesystem, bash_command,
            IF field.present THEN field.value ELSE current_working_directory_))

\* BashToolService::handle_get_pwd
handle_get_pwd ==
    /\ query' = BashAnswer("get_pwd", <<>>, TRUE, 0, current_working_directory_, <<>>)
    /\ UNCHANGED toolVars

\* BashToolService::handle_set_pwd
handle_set_pwd(new_directory) ==
    /\ current_working_directory_' = new_directory
    /\ query' = BashAnswer("set_pwd", <<>>, TRUE, 0, new_directory, <<>>)
    /\ UNCHANGED <<filesystem, shell>>

\* Coordinator::request_bash_execution(command): the request always carries
\* a working directory, the coordinator's own when the command names none
request_bash_execution(bash_command, working_directory, delivered) ==
    IF ~delivered
    THEN /\ query' = BashAnswer("request_bash_execution", bash_command, FALSE, -1, <<>>, <<>>)
         /\ UNCHANGED toolVars
    ELSE handle_execute_command("request_bash_execution", bash_command,
             Field(TRUE, IF working_directory = <<>> THEN CWD ELSE working_directory),
             working_directory)

(***************************************************************************)
(* The conversation store (ConversationManager), its session files and the *)
(* provider the coordinator talks to.  A message is its role, content and  *)
(* provider; its timestamp is written and never read back by the program.  *)
(***************************************************************************)
\* ConversationMessage(role, content, provider)
ConversationMessage(role, content, provider) ==
    [role |-> role, content |-> content, provider |-> provider]

\* ConversationManager::generate_session_id: the wall clock, to the second
generate_session_id(now) == <<"s">> \o <<IF now = 0 THEN "0" ELSE "1">>

\* the session ids the clock of the model can produce
SessionIds == {generate_session_id(now) : now \in 0..MaxClock}

\* ConversationManager: the fields the operations read
Manager(session_id, history, last_provider_used) ==
    [alive |-> TRUE, session_id_ |-> session_id, conversation_history_ |-> history,
     last_provider_used_ |-> last_provider_used]

\* no manager: before the shell is constructed and after it is destroyed
NoManager ==
    [alive |-> FALSE, session_id_ |-> <<>>, conversation_history_ |-> <<>>,
     last_provider_used_ |-> ""]

\* ConversationManager::to_json, the content of a session file
to_json(m) ==
    [exists |-> TRUE, session_id |-> m.session_id_, messages |-> m.conversation_history_,
     last_provider |-> m.last_provider_used_]

\* no file of that session
NoFile == [exists |-> FALSE, session_id |-> <<>>, messages |-> <<>>, last_provider |-> ""]

\* how a call left the manager and the files, and whether it threw
Left(m, files, threw, returned) ==
    [manager |-> m, files |-> files, threw |-> threw, returned |-> returned]

\* ConversationManager::add_user_message
add_user_message(m, content) ==
    Manager(m.session_id_,
            Append(m.conversation_history_, ConversationMessage("user", content, "")),
            m.last_provider_used_)

\* ConversationManager::add_assistant_message
add_assistant_message(m, content, provider) ==
    Manager(m.session_id_,
            Append(m.conversation_history_, ConversationMessage("assistant", content, provider)),
            provider)

\* ConversationManager::clear_history
clear_history(m) == Manager(m.session_id_, <<>>, m.last_provider_used_)

\* save_to_disk without its guard on an empty history
save_to_disk_empty_too(m, files, disk_ok) ==
    IF ~disk_ok THEN Left(m, files, TRUE, FALSE)
    ELSE Left(m, [files EXCEPT ![m.session_id_] = to_json(m)], FALSE, TRUE)

\* ConversationManager::save_to_disk: nothing for an empty history; throws
\* when the directory cannot be made or the file cannot be opened
save_to_disk(m, files, disk_ok) ==
    IF m.conversation_history_ = <<>> THEN Left(m, files, FALSE, FALSE)
    ELSE IF ~disk_ok THEN Left(m, files, TRUE, FALSE)
    ELSE Left(m, [files EXCEPT ![m.session_id_] = to_json(m)], FALSE, TRUE)

\* ConversationManager::start_new_session(session_id): a throw of the save
\* leaves the session as it was
start_new_session(m, files, session_id, disk_ok) ==
    LET saved == IF m.conversation_history_ # <<>> THEN save_to_disk(m, files, disk_ok)
                 ELSE Left(m, files, FALSE, FALSE)
    IN  IF saved.threw THEN saved
        ELSE Left(Manager(session_id, <<>>, ""), saved.files, FALSE, saved.returned)

\* ConversationMessage::from_json: j.at("role") and j.at("content") throw
\* for a message that lacks the field
message_parses(msg_json) == {"role", "content"} \subseteq DOMAIN msg_json

\* the loop of from_json: the number of messages pushed when it ends, at
\* the end of the array or at the first message that throws
RECURSIVE pushed_from(_, _)
pushed_from(messages, pushed) ==
    IF pushed < Len(messages) /\ message_parses(messages[pushed + 1])
    THEN pushed_from(messages, pushed + 1)
    ELSE pushed

\* ConversationManager::from_json: the history is cleared, and then the
\* file's messages are pushed one by one; the provider is taken after the
\* last message, so a throw leaves the history at the messages pushed
from_json(m, j) ==
    LET pushed == pushed_from(j.messages, 0)
    IN  IF pushed < Len(j.messages)
        THEN Left(Manager(m.session_id_, SubSeq(j.messages, 1, pushed),
                          m.last_provider_used_), <<>>, TRUE, FALSE)
        ELSE Left(Manager(m.session_id_, j.messages, j.last_provider), <<>>, FALSE, TRUE)

\* ConversationManager::load_session: false when there is no such file or it
\* cannot be opened, and otherwise the file takes the place of the history;
\* a throw of from_json is caught and false is returned, with the manager
\* as from_json left it
load_session(m, files, session_id, disk_ok) ==
    IF session_id \notin DOMAIN files \/ ~files[session_id].exists
    THEN Left(m, files, FALSE, FALSE)
    ELSE IF ~disk_ok THEN Left(m, files, FALSE, FALSE)
    ELSE LET loaded == from_json(m, files[session_id])
         IN  IF loaded.threw THEN Left(loaded.manager, files, FALSE, FALSE)
             ELSE Left(Manager(session_id, loaded.manager.conversation_history_,
                               loaded.manager.last_provider_used_), files, FALSE, TRUE)

\* ConversationManager::~ConversationManager: saves a history that holds
\* messages and swallows a throw of the save
destroy(m, files, disk_ok) ==
    LET saved == IF m.conversation_history_ # <<>> THEN save_to_disk(m, files, disk_ok)
                 ELSE Left(m, files, FALSE, FALSE)
    IN  Left(NoManager, saved.files, FALSE, saved.returned)

\* the friendly names the shell takes after the slash
FriendlyNames == {"gemini", "claude", "chatgpt", "mistral"}

\* set_provider recording the name as it was typed
set_provider_as_typed(provider_name) == provider_name

\* Coordinator::set_provider: the friendly names chatgpt and claude become
\* the adapters' own names
set_provider(provider_name) ==
    IF provider_name = "chatgpt" THEN "openai"
    ELSE IF provider_name = "claude" THEN "anthropic"
    ELSE provider_name

\* ConversationManager::CHARS_PER_TOKEN
CHARS_PER_TOKEN == 4

\* the loop of trim_to_token_limit: walking back from the newest message,
\* the number of messages passed when the walk stops; a message is passed,
\* and its estimate added, while the estimate stands below max_tokens
RECURSIVE passed_from_newest(_, _, _, _)
passed_from_newest(history, passed, estimated_tokens, max_tokens) ==
    IF passed < Len(history) /\ estimated_tokens < max_tokens
    THEN passed_from_newest(history, passed + 1,
                            estimated_tokens
                               + (Len(history[Len(history) - passed].content) \div CHARS_PER_TOKEN),
                            max_tokens)
    ELSE passed

\* ConversationManager::trim_to_token_limit: when the walk stopped short of
\* the oldest message, messages_to_keep is the distance from where it
\* stopped to the oldest message, and the messages before the last
\* messages_to_keep are erased
trim_to_token_limit(m, max_tokens) ==
    LET history == m.conversation_history_
        passed == passed_from_newest(history, 0, 0, max_tokens)
        messages_to_keep == Len(history) - passed
    IN  IF passed < Len(history)
        THEN Manager(m.session_id_,
                     SubSeq(history, (Len(history) - messages_to_keep) + 1, Len(history)),
                     m.last_provider_used_)
        ELSE m

\* ConversationManager::trim_to_last_n_messages
trim_to_last_n_messages(m, n) ==
    LET history == m.conversation_history_
    IN  IF Len(history) > n
        THEN Manager(m.session_id_, SubSeq(history, (Len(history) - n) + 1, Len(history)),
                     m.last_provider_used_)
        ELSE m

InitConversation ==
    /\ conversation_manager_ = NoManager
    /\ session_files = [id \in SessionIds |-> NoFile]
    /\ current_provider_ = ""

\* no message is on its way, and no adapter service has been started
NoMessage == [sent |-> FALSE]
NoExchange == [request |-> NoMessage, reply |-> NoMessage]
NoClient == [up |-> FALSE, provider_ |-> "", environment |-> <<>>]

InitAdapter ==
    /\ llm_socket = NoExchange
    /\ llm_client = NoClient

(***************************************************************************)
(* The todo store (TodoManager).                                           *)
(***************************************************************************)
\* the readings of std::chrono::system_clock an item can be created at; the
\* wall clock may be set back between two readings
Times == 0..MaxClock

\* the titles todos are created with: one file operation, two shell commands
PromptNote == <<"n", "o", "t", "e">>
PromptRunLs == <<"r", "u", "n", " ", "l", "s">>
PromptRunRm == <<"R", "u", "n", " ", "r", "m">>
Prompts == {PromptNote, PromptRunLs, PromptRunRm}

\* TodoManager::add_todo: an empty title throws before anything is changed
TodoManager_add_todo(title, now) ==
    IF title = <<>> THEN UNCHANGED todoVars
    ELSE /\ todos_' = Append(todos_, [id |-> next_id_, title |-> title,
                                      description |-> <<>>, status |-> "pending",
                                      created_at |-> now])
         /\ next_id_' = next_id_ + 1
         /\ issued' = Append(issued, next_id_)

\* the position in todos_ of the item with this id, 0 when there is none
find_todo(todos, id) ==
    LET hits == {i \in 1..Len(todos) : todos[i].id = id}
    IN  IF hits = {} THEN 0 ELSE CHOOSE i \in hits : \A j \in hits : i <= j

\* TodoManager::update_todo with only a status: the store afterwards
update_status(todos, id, status) ==
    LET i == find_todo(todos, id)
    IN  IF i = 0 THEN todos ELSE [todos EXCEPT ![i].status = status]

mark_in_progress(todos, id) == update_status(todos, id, "in_progress")
mark_completed(todos, id) == update_status(todos, id, "completed")

\* a clear that also starts the ids again: the fault that IdsNeverReused
\* excludes
clear_todos_restarting_ids ==
    /\ todos_' = <<>>
    /\ next_id_' = 1
    /\ UNCHANGED issued

\* TodoManager::clear_todos
clear_todos ==
    /\ todos_' = <<>>
    /\ UNCHANGED <<next_id_, issued>>

\* TodoManager::delete_todo
delete_todo(id) ==
    /\ todos_' = SelectSeq(todos_, LAMBDA t : t.id # id)
    /\ UNCHANGED <<next_id_, issued>>

\* TodoManager::update_todo with only a status
update_todo(id, status) ==
    /\ todos_' = update_status(todos_, id, status)
    /\ UNCHANGED <<next_id_, issued>>

\* TodoManager::get_pending_todos: the pending items in store order
get_pending_todos(todos) == SelectSeq(todos, LAMBDA t : t.status = "pending")

\* std::sort by created_at as it runs on a short vector (insertion sort):
\* item goes before the first element of sorted that was created later
InsertByCreatedAt(sorted, item) ==
    LET later == {i \in 1..Len(sorted) : item.created_at < sorted[i].created_at}
        at == IF later = {} THEN Len(sorted) + 1
              ELSE CHOOSE i \in later : \A j \in later : i <= j
    IN  SubSeq(sorted, 1, at - 1) \o <<item>> \o SubSeq(sorted, at, Len(sorted))

RECURSIVE SortByCreatedAt(_)
SortByCreatedAt(items) ==
    IF items = <<>> THEN <<>>
    ELSE InsertByCreatedAt(SortByCreatedAt(SubSeq(items, 1, Len(items) - 1)),
                           items[Len(items)])

\* TodoManager::get_execution_queue: the pending items sorted by created_at
get_execution_queue(todos) == SortByCreatedAt(get_pending_todos(todos))

\* TodoManager::get_todos_until, the loop
RECURSIVE TakeUntil(_, _)
TakeUntil(queue, stop_id) ==
    IF queue = <<>> \/ Head(queue).id = stop_id THEN <<>>
    ELSE <<Head(queue)>> \o TakeUntil(Tail(queue), stop_id)

\* a selection that takes the item with stop_id as well: the fault that
\* UntilIsTheSliceBefore excludes
get_todos_until_inclusive(todos, stop_id) ==
    LET queue == get_execution_queue(todos)
        taken == TakeUntil(queue, stop_id)
    IN  SubSeq(queue, 1, IF Len(taken) < Len(queue) THEN Len(taken) + 1 ELSE Len(taken))

\* TodoManager::get_todos_until
get_todos_until(todos, stop_id) == TakeUntil(get_execution_queue(todos), stop_id)

\* TodoManager::get_todos_range
RECURSIVE TakeRange(_, _, _, _)
TakeRange(queue, start_id, end_id, found_start) ==
    IF queue = <<>> THEN <<>>
    ELSE LET todo == Head(queue)
             found == found_start \/ todo.id = start_id
         IN  IF ~found THEN TakeRange(Tail(queue), start_id, end_id, FALSE)
             ELSE IF todo.id = end_id THEN <<todo>>
             ELSE <<todo>> \o TakeRange(Tail(queue), start_id, end_id, TRUE)

get_todos_range(todos, start_id, end_id) ==
    TakeRange(get_execution_queue(todos), start_id, end_id, FALSE)

\* TodoManager::get_next_pending: the id of the first pending item, 0 for nullptr
get_next_pending(todos) ==
    LET pending == get_pending_todos(todos)
    IN  IF pending = <<>> THEN 0 ELSE pending[1].id


(***************************************************************************)
(* The todo operations in an assistant's text                              *)
(* (Coordinator::parse_and_execute_todo_operations).  A text is a sequence *)
(* of pieces: plain text and the expressions the patterns of the function  *)
(* match.  Two pieces are equal exactly when they are spelled the same.    *)
(***************************************************************************)
\* a piece of a text: plain text, an expression, or what replaced one
Piece(kind, title, description, id, todos) ==
    [kind |-> kind, title |-> title, description |-> description, id |-> id, todos |-> todos]

PlainText == Piece("text", <<>>, <<>>, 0, <<>>)
AddTodoCall(title, description) == Piece("add_todo", title, description, 0, <<>>)
ListTodosCall == Piece("list_todos", <<>>, <<>>, 0, <<>>)
MarkCompleteCall(id) == Piece("mark_complete", <<>>, <<>>, id, <<>>)
DeleteTodoCall(id) == Piece("delete_todo", <<>>, <<>>, id, <<>>)

\* the replacements: "**Added:** title", the block "**Current Todos:**",
\* "**Completed:** Todo id", "**Deleted:** Todo id", "**Error:** Todo id not found"
Added(title) == Piece("**Added:**", title, <<>>, 0, <<>>)
CurrentTodos(todos) == Piece("**Current Todos:**", <<>>, <<>>, 0, todos)
Completed(id) == Piece("**Completed:**", <<>>, <<>>, id, <<>>)
Deleted(id) == Piece("**Deleted:**", <<>>, <<>>, id, <<>>)
NotFound(id) == Piece("**Error:** not found", <<>>, <<>>, id, <<>>)

\* how an expression is spelled, character by character
Digits == <<"1", "2", "3", "4", "5", "6", "7", "8", "9">>
spelling(piece) ==
    IF piece.kind = "mark_complete" THEN <<"m", "a", "r", "k", "_", "c", "o", "m", "p", "l", "e", "t", "e", "(">> \o <<Digits[piece.id]>> \o <<")">>
    ELSE IF piece.kind = "delete_todo" THEN <<"d", "e", "l", "e", "t", "e", "_", "t", "o", "d", "o", "(">> \o <<Digits[piece.id]>> \o <<")">>
    ELSE <<>>

\* the expressions with a number that a string of characters can spell
NumberedCalls == {MarkCompleteCall(id) : id \in 1..MaxId} \cup {DeleteTodoCall(id) : id \in 1..MaxId}

\* the expressions the patterns find in a string of characters, from left
\* to right (each once: pieces spelled the same are replaced together)
RECURSIVE in_order(_, _)
in_order(chars, calls) ==
    IF calls = {} THEN <<>>
    ELSE LET first == CHOOSE c \in calls :
                         \A d \in calls : Find(chars, spelling(c)) <= Find(chars, spelling(d))
         IN  <<first>> \o in_order(chars, calls \ {first})

spelled_in(chars) ==
    in_order(chars, {c \in NumberedCalls : Find(chars, spelling(c)) # NPOS})

RECURSIVE spelled_in_todos(_)
spelled_in_todos(todos) ==
    IF todos = <<>> THEN <<>>
    ELSE spelled_in(Head(todos).title) \o spelled_in(Head(todos).description)
            \o spelled_in_todos(Tail(todos))

\* a replacement as the later patterns see it: the replacement, followed by
\* the expressions that the title it repeats, or the titles and descriptions
\* of the block it renders, spell
echoed(replacement) ==
    <<replacement>> \o spelled_in(replacement.title) \o spelled_in_todos(replacement.todos)

\* every piece of a text for which hit holds gives way to the pieces of with
RECURSIVE splice(_, _, _)
splice(text, hits, with) ==
    IF text = <<>> THEN <<>>
    ELSE (IF Len(text) \in hits THEN splice(SubSeq(text, 1, Len(text) - 1), hits, with) \o with
          ELSE Append(splice(SubSeq(text, 1, Len(text) - 1), hits, with), text[Len(text)]))

\* the position of the first piece of a kind, 0 when there is none:
\* std::regex_search from the beginning of the text
first_of_kind(text, kind) ==
    LET hits == {i \in 1..Len(text) : text[i].kind = kind}
    IN  IF hits = {} THEN 0 ELSE CHOOSE i \in hits : \A j \in hits : i <= j

\* std::regex_replace(text, std::regex(regex_escape(match)), replacement):
\* every piece spelled like the match is replaced
regex_replace(text, match, replacement) ==
    splice(text, {i \in 1..Len(text) : text[i] = match}, echoed(replacement))

\* the store, the text and whether the call has thrown
Parsing(todos, next_id, ids, text, threw) ==
    [todos |-> todos, next_id |-> next_id, issued |-> ids, text |-> text, threw |-> threw]

\* the loop over add_todo expressions: the first one is executed, every
\* piece spelled like it is replaced, and the search starts again;
\* TodoManager::add_todo throws for an empty title
RECURSIVE process_add_todo(_, _)
process_add_todo(p, now) ==
    LET i == first_of_kind(p.text, "add_todo")
    IN  IF i = 0 THEN p
        ELSE IF p.text[i].title = <<>>
        THEN Parsing(p.todos, p.next_id, p.issued, p.text, TRUE)
        ELSE process_add_todo(
                Parsing(Append(p.todos, [id |-> p.next_id, title |-> p.text[i].title,
                                         description |-> p.text[i].description,
                                         status |-> "pending", created_at |-> now]),
                        p.next_id + 1, Append(p.issued, p.next_id),
                        regex_replace(p.text, p.text[i], Added(p.text[i].title)), FALSE),
                now)

\* the lines of the block "**Current Todos:**": id, title, description and
\* whether the item is completed, in the order of list_todos(true)
listed(todos) ==
    [i \in 1..Len(todos) |->
        [id |-> todos[i].id, title |-> todos[i].title, description |-> todos[i].description,
         completed |-> todos[i].status = "completed"]]

\* list_todos(): every list_todos() is replaced by the block
process_list_todos(p) ==
    IF first_of_kind(p.text, "list_todos") = 0 THEN p
    ELSE Parsing(p.todos, p.next_id, p.issued,
                 splice(p.text, {i \in 1..Len(p.text) : p.text[i].kind = "list_todos"},
                        echoed(CurrentTodos(listed(p.todos)))),
                 FALSE)

\* TodoManager::update_todo with only a status, its return value: true when
\* the item is there and its status was another one
update_todo_updated(todos, id, status) ==
    LET i == find_todo(todos, id)
    IN  i # 0 /\ todos[i].status # status

\* the loop over mark_complete expressions
RECURSIVE process_mark_complete(_)
process_mark_complete(p) ==
    LET i == first_of_kind(p.text, "mark_complete")
    IN  IF i = 0 THEN p
        ELSE LET todo_id == p.text[i].id
                 replacement == IF update_todo_updated(p.todos, todo_id, "completed")
                                THEN Completed(todo_id) ELSE NotFound(todo_id)
             IN  process_mark_complete(
                    Parsing(mark_completed(p.todos, todo_id), p.next_id, p.issued,
                            regex_replace(p.text, p.text[i], replacement), FALSE))

\* the loop over delete_todo expressions
RECURSIVE process_delete_todo(_)
process_delete_todo(p) ==
    LET i == first_of_kind(p.text, "delete_todo")
    IN  IF i = 0 THEN p
        ELSE LET todo_id == p.text[i].id
                 replacement == IF find_todo(p.todos, todo_id) # 0
                                THEN Deleted(todo_id) ELSE NotFound(todo_id)
             IN  process_delete_todo(
                    Parsing(SelectSeq(p.todos, LAMBDA t : t.id # todo_id), p.next_id, p.issued,
                            regex_replace(p.text, p.text[i], replacement), FALSE))

\* Coordinator::parse_and_execute_todo_operations for a text of these
\* pieces: the add_todo loop, list_todos, the mark_complete loop, the
\* delete_todo loop; a throw of add_todo leaves the function at once
after_add_todo(added) ==
    IF added.threw THEN added
    ELSE process_delete_todo(process_mark_complete(process_list_todos(added)))

parse_and_execute_todo_operations(llm_response, now) ==
    after_add_todo(process_add_todo(Parsing(todos_, next_id_, issued, llm_response, FALSE),
                                    now))

\* Coordinator::request_chat_from_llm_with_history on the reply of the
\* model: request_chat_from_llm interprets the reply, and what it returns is
\* interpreted once more
interpreted_again(first, now) ==
    IF first.threw THEN first
    ELSE after_add_todo(process_add_todo(first, now))

request_chat_from_llm_with_history(llm_response, now) ==
    interpreted_again(parse_and_execute_todo_operations(llm_response, now), now)

(***************************************************************************)
(* Routing of a todo to an executor (Coordinator::execute_single_todo).    *)
(***************************************************************************)
\* the prompt execute_single_todo builds from a todo
todo_prompt(todo) ==
    IF todo.description # <<>> THEN todo.title \o <<" ", "-", " ">> \o todo.description
    ELSE todo.title

bash_keywords ==
    << <<"r", "u", "n">>, <<"e", "x", "e", "c", "u", "t", "e">>, <<"b", "u", "i", "l", "d">>, <<"c", "o", "m", "p", "i", "l", "e">>, <<"m", "a", "k", "e">>, <<"c", "m", "a", "k", "e">>, <<"n", "p", "m">>,
       <<"y", "a", "r", "n">>, <<"p", "i", "p">>, <<"i", "n", "s", "t", "a", "l", "l">>, <<"t", "e", "s", "t">>, <<"c", "d", " ">>, <<"l", "s">>, <<"p", "w", "d">>, <<"m", "k", "d", "i", "r">>,
       <<"c", "h", "m", "o", "d">>, <<"g", "r", "e", "p">>, <<"f", "i", "n", "d">>, <<"g", "i", "t", " ">>, <<"d", "o", "c", "k", "e", "r">>, <<"c", "u", "r", "l">>, <<"w", "g", "e", "t">>,
       <<"t", "a", "r">>, <<"u", "n", "z", "i", "p">>, <<"e", "x", "p", "o", "r", "t">> >>

\* Coordinator::should_execute_as_bash_command
should_execute_as_bash_command(prompt) ==
    LET lower_prompt == ToLower(prompt)
    IN  \E i \in 1..Len(bash_keywords) : Find(lower_prompt, bash_keywords[i]) # NPOS

Blank == {" ", "\t", "\n"}

\* the start of the script name that ends at py_pos: back to a space or '/'
RECURSIVE ScriptStart(_, _)
ScriptStart(lower_prompt, start) ==
    IF start > 0 /\ lower_prompt[start] # " " /\ lower_prompt[start] # "/"
    THEN ScriptStart(lower_prompt, start - 1)
    ELSE start

\* Coordinator::extract_bash_command_from_prompt
extract_bash_command_from_prompt(prompt) ==
    LET lower_prompt == ToLower(prompt)
        has(pat) == Find(lower_prompt, pat) # NPOS
        word_from(python_pos, n) ==
            LET end_pos == FindFirstOf(prompt, Blank, python_pos + n)
            IN  Substr(prompt, python_pos,
                       (IF end_pos = NPOS THEN Len(prompt) ELSE end_pos) - python_pos)
    IN  IF has(<<"p", "y", "t", "h", "o", "n", "3", " ">>) THEN word_from(Find(lower_prompt, <<"p", "y", "t", "h", "o", "n", "3", " ">>), 8)
        ELSE IF has(<<"p", "y", "t", "h", "o", "n", " ">>) THEN word_from(Find(lower_prompt, <<"p", "y", "t", "h", "o", "n", " ">>), 7)
        ELSE IF has(<<"p", "y", "t", "h", "o", "n">>) \/ has(<<"s", "c", "r", "i", "p", "t">>)
        THEN IF has(<<".", "p", "y">>)
             THEN LET py_pos == Find(lower_prompt, <<".", "p", "y">>)
                      start == ScriptStart(lower_prompt, py_pos)
                  IN  <<"p", "y", "t", "h", "o", "n", "3", " ">> \o Substr(prompt, start, py_pos - start + 3)
             ELSE IF has(<<"c", "o", "u", "n", "t", "i", "n", "g">>) THEN <<"p", "y", "t", "h", "o", "n", "3", " ", "s", "r", "c", "/", "c", "o", "u", "n", "t", "i", "n", "g", ".", "p", "y">>
             ELSE <<"p", "y", "t", "h", "o", "n", "3", " ", "s", "r", "c", "/", "s", "c", "r", "i", "p", "t", ".", "p", "y">>
        ELSE IF has(<<"r", "u", "n", " ">>)
        THEN LET cmd == SubstrFrom(prompt, Find(lower_prompt, <<"r", "u", "n", " ">>) + 4)
                 first == FindFirstNotOf(cmd, {" ", "\t"})
             IN  IF first # NPOS THEN SubstrFrom(cmd, first) ELSE cmd
        ELSE IF has(<<"e", "x", "e", "c", "u", "t", "e", " ">>)
        THEN LET cmd == SubstrFrom(prompt, Find(lower_prompt, <<"e", "x", "e", "c", "u", "t", "e", " ">>) + 8)
             IN  IF Find(cmd, <<"p", "y", "t", "h", "o", "n">>) # NPOS \/ Find(cmd, <<"s", "c", "r", "i", "p", "t">>) # NPOS
                 THEN <<"p", "y", "t", "h", "o", "n", "3", " ", "s", "r", "c", "/", "c", "o", "u", "n", "t", "i", "n", "g", ".", "p", "y">>
                 ELSE cmd
        ELSE IF has(<<"m", "a", "k", "e">>) THEN <<"m", "a", "k", "e">>
        ELSE IF has(<<"b", "u", "i", "l", "d">>) THEN <<"m", "a", "k", "e">>
        ELSE IF has(<<"t", "e", "s", "t">>) THEN <<"m", "a", "k", "e", " ", "t", "e", "s", "t">>
        ELSE IF has(<<"n", "p", "m", " ", "i", "n", "s", "t", "a", "l", "l">>) THEN <<"n", "p", "m", " ", "i", "n", "s", "t", "a", "l", "l">>
        ELSE IF has(<<"g", "i", "t", " ">>) THEN SubstrFrom(prompt, Find(lower_prompt, <<"g", "i", "t", " ">>))
        ELSE prompt

(***************************************************************************)
(* The collaborators' answers: the model's plan, the file tool's results   *)
(* and the bash tool's result are chosen by the environment.               *)
(***************************************************************************)
PlanPaths == {<<>>, <<"s", "/", "a">>, <<"w", "/", "a">>, <<"s", "/", ".", ".", "/", "a">>}
PlanCommands == {"WriteFile", "write"}

\* request_plan_from_llm returns a WriteFileCommand or throws
Plans == [command : PlanCommands, path : PlanPaths]
PlanThrows == [command |-> "throw", path |-> <<>>]

FileRequest(operation, path) == [operation |-> operation, path |-> path]

\* how execute_single_todo ends and what it sent on the way
Outcome(ok, file, bash) == [ok |-> ok, file |-> file, bash |-> bash]

(***************************************************************************)
(* The executors of the coordinator.                                       *)
(***************************************************************************)
\* a file-operation executor that goes to the file tool without asking the
\* policy checker: the fault that PolicyBeforeExecution excludes
execute_todo_as_file_operation_unchecked(doc, plan, dry_ok, apply_ok) ==
    IF plan.command = "throw" THEN Outcome(FALSE, <<>>, <<>>)
    ELSE IF plan.path = <<>> THEN Outcome(FALSE, <<>>, <<>>)
    ELSE IF ~dry_ok THEN Outcome(FALSE, <<FileRequest("dry_run", plan.path)>>, <<>>)
    ELSE Outcome(apply_ok,
                 <<FileRequest("dry_run", plan.path), FileRequest("apply", plan.path)>>,
                 <<>>)

\* Coordinator::execute_todo_as_file_operation: plan, empty-path check,
\* policy check, dry run, apply; every failure throws
execute_todo_as_file_operation(doc, plan, dry_ok, apply_ok) ==
    IF plan.command = "throw" THEN Outcome(FALSE, <<>>, <<>>)
    ELSE IF plan.path = <<>> THEN Outcome(FALSE, <<>>, <<>>)
    ELSE IF ~is_allowed_path(doc, plan.path) THEN Outcome(FALSE, <<>>, <<>>)
    ELSE IF ~dry_ok THEN Outcome(FALSE, <<FileRequest("dry_run", plan.path)>>, <<>>)
    ELSE Outcome(apply_ok,
                 <<FileRequest("dry_run", plan.path), FileRequest("apply", plan.path)>>,
                 <<>>)

\* Coordinator::execute_todo_as_bash_command: extract the command, policy
\* check, request_bash_execution (which may fail before sending); every
\* failure throws
execute_todo_as_bash_command(doc, prompt, sent, exec_ok) ==
    LET bash_command == extract_bash_command_from_prompt(prompt)
    IN  IF bash_command = <<>> THEN Outcome(FALSE, <<>>, <<>>)
        ELSE IF ~is_bash_command_allowed(doc, bash_command) THEN Outcome(FALSE, <<>>, <<>>)
        ELSE IF ~sent THEN Outcome(FALSE, <<>>, <<>>)
        ELSE Outcome(exec_ok, <<>>, <<bash_command>>)

\* Coordinator::execute_generic_command, the file branch
execute_generic_file(doc, path, dry_ok, apply_ok) ==
    IF ~is_allowed_path(doc, path) THEN Outcome(FALSE, <<>>, <<>>)
    ELSE IF ~dry_ok THEN Outcome(FALSE, <<FileRequest("dry_run", path)>>, <<>>)
    ELSE Outcome(apply_ok,
                 <<FileRequest("dry_run", path), FileRequest("apply", path)>>, <<>>)

\* Coordinator::execute_generic_command, the bash branch
execute_generic_bash(doc, bash_command, sent, exec_ok) ==
    IF ~is_bash_command_allowed(doc, bash_command) THEN Outcome(FALSE, <<>>, <<>>)
    ELSE IF ~sent THEN Outcome(FALSE, <<>>, <<>>)
    ELSE Outcome(exec_ok, <<>>, <<bash_command>>)

\* Coordinator::execute_single_todo: every way one todo can go
single_todo_outcomes(doc, todo) ==
    LET prompt == todo_prompt(todo)
    IN  IF should_execute_as_bash_command(prompt)
        THEN {execute_todo_as_bash_command(doc, prompt, sent, exec_ok) :
                 sent \in BOOLEAN, exec_ok \in BOOLEAN}
        ELSE {execute_todo_as_file_operation(doc, plan, dry_ok, apply_ok) :
                 plan \in Plans \cup {PlanThrows}, dry_ok \in BOOLEAN, apply_ok \in BOOLEAN}

\* a confirmation in which y also switches always-approve on: the fault that
\* ConfirmationByFirstCharacter excludes
get_user_confirmation_sticky_yes(line) ==
    IF line # <<>>
    THEN IF line[1] = "a" \/ line[1] = "A" \/ line[1] = "y" \/ line[1] = "Y"
         THEN [confirmed |-> TRUE, always |-> TRUE]
         ELSE [confirmed |-> FALSE, always |-> FALSE]
    ELSE [confirmed |-> FALSE, always |-> FALSE]

\* Coordinator::get_user_confirmation on one line of input
get_user_confirmation(line) ==
    IF line # <<>>
    THEN IF line[1] = "a" \/ line[1] = "A"
         THEN [confirmed |-> TRUE, always |-> TRUE]
         ELSE [confirmed |-> line[1] = "y" \/ line[1] = "Y", always |-> FALSE]
    ELSE [confirmed |-> FALSE, always |-> FALSE]

Inputs == {<<>>, <<"a">>, <<"A">>, <<"y">>, <<"Y">>, <<"n">>, <<"n", "a">>, <<"y", "a">>}

(***************************************************************************)
(* The coordinator (Coordinator).                                          *)
(***************************************************************************)
NoBatch == [kind |-> "none", queue |-> <<>>, idx |-> 0]
NoCommand == [command |-> "none", path |-> <<>>]
NoInput == [read |-> FALSE, line |-> <<>>]
NoQuery == [pc |-> "off", doc |-> DocDefault, tool |-> "file_tool", op |-> "READ",
            path |-> <<>>, result |-> FALSE]

\* the state a constructed Coordinator and TodoManager are in
InitCoordinator ==
    /\ policy_checker_ \in PolicyDocs
    /\ todos_ = <<>>
    /\ next_id_ = 1
    /\ issued = <<>>
    /\ always_approve_ = FALSE
    /\ chat_mode_ = TRUE
    /\ execution_state_ = "STOPPED"
    /\ should_stop_execution_ = FALSE
    /\ should_pause_execution_ = FALSE
    /\ pc = "idle"
    /\ batch = NoBatch
    /\ command = NoCommand
    /\ result = "none"
    /\ file_requests = <<>>
    /\ bash_requests = <<>>
    /\ output = ""
    /\ input = NoInput

\* the todo the running batch is at
current_todo == batch.queue[batch.idx]

\* a call of TodoManager::add_todo between two commands of the coordinator
add_todo(title) ==
    /\ pc = "idle"
    /\ Len(todos_) < MaxTodos
    /\ \E now \in Times : TodoManager_add_todo(title, now)
    /\ UNCHANGED <<policy_checker_, ctlVars, planVars, reqVars, pc, batch, result>>

\* Coordinator::set_chat_mode
set_chat_mode(enabled) ==
    /\ pc = "idle"
    /\ chat_mode_' = enabled
    /\ UNCHANGED <<policy_checker_, todoVars, ctlVars, reqVars, pc, batch, result,
                   always_approve_, command, output, input>>

\* Coordinator::toggle_chat_mode
toggle_chat_mode ==
    /\ pc = "idle"
    /\ chat_mode_' = ~chat_mode_
    /\ UNCHANGED <<policy_checker_, todoVars, ctlVars, reqVars, pc, batch, result,
                   always_approve_, command, output, input>>

\* a call that starts executing the items of queue under the given kind
start_items(kind, queue) ==
    /\ batch' = [kind |-> kind, queue |-> queue, idx |-> 1]
    /\ pc' = "begin_item"
    /\ result' = "none"

\* Coordinator::execute_todos up to the loop: the snapshot of the pending
\* items, then RUNNING and both flags cleared
execute_todos ==
    /\ pc = "idle"
    /\ LET pending_todos == get_pending_todos(todos_)
       IN  IF pending_todos = <<>>
           THEN UNCHANGED <<ctlVars, pc, batch, result>>
           ELSE /\ execution_state_' = "RUNNING"
                /\ should_stop_execution_' = FALSE
                /\ should_pause_execution_' = FALSE
                /\ batch' = [kind |-> "all", queue |-> pending_todos, idx |-> 1]
                /\ pc' = "check_stop"
                /\ result' = "none"
    /\ UNCHANGED <<policy_checker_, todoVars, planVars, reqVars>>

\* Coordinator::execute_next_todo up to the try block
execute_next_todo ==
    /\ pc = "idle"
    /\ LET next == get_next_pending(todos_)
       IN  IF next = 0
           THEN UNCHANGED <<pc, batch, result>>
           ELSE start_items("next", <<todos_[find_todo(todos_, next)]>>)
    /\ UNCHANGED <<policy_checker_, todoVars, ctlVars, planVars, reqVars>>

\* Coordinator::execute_todos_until up to the loop
execute_todos_until(stop_id) ==
    /\ pc = "idle"
    /\ LET todos_to_execute == get_todos_until(todos_, stop_id)
       IN  IF todos_to_execute = <<>>
           THEN UNCHANGED <<pc, batch, result>>
           ELSE start_items("until", todos_to_execute)
    /\ UNCHANGED <<policy_checker_, todoVars, ctlVars, planVars, reqVars>>

\* Coordinator::execute_todos_range up to the loop
execute_todos_range(start_id, end_id) ==
    /\ pc = "idle"
    /\ LET todos_to_execute == get_todos_range(todos_, start_id, end_id)
       IN  IF todos_to_execute = <<>>
           THEN UNCHANGED <<pc, batch, result>>
           ELSE start_items("range", todos_to_execute)
    /\ UNCHANGED <<policy_checker_, todoVars, ctlVars, planVars, reqVars>>

\* CLIInterface::handle_do_command with a single id, up to mark_in_progress
do_single(todo_id) ==
    /\ pc = "idle"
    /\ LET i == find_todo(todos_, todo_id)
       IN  IF i # 0 /\ todos_[i].status = "pending"
           THEN start_items("single", <<todos_[i]>>)
           ELSE UNCHANGED <<pc, batch, result>>
    /\ UNCHANGED <<policy_checker_, todoVars, ctlVars, planVars, reqVars>>

\* execute_todos, the first check of should_stop_execution_ before an item
loop_check_stop ==
    /\ pc = "check_stop"
    /\ pc' = IF should_stop_execution_ THEN "reset" ELSE "pause_wait"
    /\ UNCHANGED <<policy_checker_, todoVars, ctlVars, planVars, reqVars, batch, result>>

\* a pause loop that never waits: the fault that PauseCheckHoldsTheLoop
\* excludes
loop_pause_wait_not_waiting ==
    /\ pc = "pause_wait"
    /\ pc' = "check_stop2"
    /\ UNCHANGED <<policy_checker_, todoVars, ctlVars, planVars, reqVars, batch, result>>

\* execute_todos, one evaluation of the pause loop: sleep while paused
loop_pause_wait ==
    /\ pc = "pause_wait"
    /\ pc' = IF should_pause_execution_ /\ execution_state_ = "PAUSED"
             THEN (IF should_stop_execution_ THEN "check_stop2" ELSE "pause_wait")
             ELSE "check_stop2"
    /\ UNCHANGED <<policy_checker_, todoVars, ctlVars, planVars, reqVars, batch, result>>

\* a second check that does not look at should_stop_execution_: the fault
\* that StopIsCooperative excludes
loop_check_stop2_ignoring_stop ==
    /\ pc = "check_stop2"
    /\ pc' = "begin_item"
    /\ UNCHANGED <<policy_checker_, todoVars, ctlVars, planVars, reqVars, batch, result>>

\* execute_todos, the second check of should_stop_execution_
loop_check_stop2 ==
    /\ pc = "check_stop2"
    /\ pc' = IF should_stop_execution_ THEN "reset" ELSE "begin_item"
    /\ UNCHANGED <<policy_checker_, todoVars, ctlVars, planVars, reqVars, batch, result>>

\* mark_in_progress of the item about to run (every execution path)
begin_item ==
    /\ pc = "begin_item"
    /\ todos_' = mark_in_progress(todos_, current_todo.id)
    /\ pc' = "run_item"
    /\ UNCHANGED <<policy_checker_, next_id_, issued, ctlVars, planVars, reqVars, batch, result>>

\* Coordinator::execute_single_todo on the copy of the item held by the caller
run_item ==
    /\ pc = "run_item"
    /\ \E o \in single_todo_outcomes(policy_checker_, current_todo) :
          /\ result' = IF o.ok THEN "returned" ELSE "threw"
          /\ file_requests' = o.file
          /\ bash_requests' = o.bash
    /\ pc' = "end_item"
    /\ UNCHANGED <<policy_checker_, todoVars, ctlVars, planVars, batch>>

\* after the item of execute_todos: mark_completed, or the catch block that
\* only prints; the loop goes on to the next item either way
continue_after_failure(kind) == kind = "all"

\* an end of item that calls mark_completed whether execute_single_todo
\* returned or threw: the fault that CompletedOnlyOnSuccess excludes
end_item_completing_always ==
    /\ pc = "end_item"
    /\ todos_' = mark_completed(todos_, current_todo.id)
    /\ LET more == batch.idx < Len(batch.queue)
           goes_on == more /\ (result = "returned" \/ continue_after_failure(batch.kind))
       IN  IF batch.kind = "all"
           THEN /\ batch' = [batch EXCEPT !.idx = batch.idx + 1]
                /\ pc' = IF goes_on THEN "check_stop" ELSE "reset"
           ELSE IF goes_on
                THEN /\ batch' = [batch EXCEPT !.idx = batch.idx + 1]
                     /\ pc' = "begin_item"
                ELSE /\ batch' = NoBatch
                     /\ pc' = "idle"
    /\ result' = "none"
    /\ file_requests' = <<>>
    /\ bash_requests' = <<>>
    /\ UNCHANGED <<policy_checker_, next_id_, issued, ctlVars, planVars>>

\* after execute_single_todo: mark_completed when it returned; when it threw,
\* the catch block of the caller; then the next item or the end of the call
end_item ==
    /\ pc = "end_item"
    /\ todos_' = IF result = "returned" THEN mark_completed(todos_, current_todo.id)
                 ELSE todos_
    /\ LET more == batch.idx < Len(batch.queue)
           goes_on == more /\ (result = "returned" \/ continue_after_failure(batch.kind))
       IN  IF batch.kind = "all"
           THEN /\ batch' = [batch EXCEPT !.idx = batch.idx + 1]
                /\ pc' = IF goes_on THEN "check_stop" ELSE "reset"
           ELSE IF goes_on
                THEN /\ batch' = [batch EXCEPT !.idx = batch.idx + 1]
                     /\ pc' = "begin_item"
                ELSE /\ batch' = NoBatch
                     /\ pc' = "idle"
    /\ result' = "none"
    /\ file_requests' = <<>>
    /\ bash_requests' = <<>>
    /\ UNCHANGED <<policy_checker_, next_id_, issued, ctlVars, planVars>>

\* execute_todos after the loop: STOPPED and both flags cleared
loop_reset ==
    /\ pc = "reset"
    /\ execution_state_' = "STOPPED"
    /\ should_stop_execution_' = FALSE
    /\ should_pause_execution_' = FALSE
    /\ batch' = NoBatch
    /\ pc' = "idle"
    /\ UNCHANGED <<policy_checker_, todoVars, planVars, reqVars, result>>

\* Coordinator::pause_execution
pause_execution ==
    /\ IF execution_state_ = "RUNNING"
       THEN /\ should_pause_execution_' = TRUE
            /\ execution_state_' = "PAUSED"
            /\ UNCHANGED should_stop_execution_
       ELSE UNCHANGED ctlVars
    /\ UNCHANGED <<policy_checker_, todoVars, planVars, reqVars, pc, batch, result>>

\* Coordinator::resume_execution
resume_execution ==
    /\ IF execution_state_ = "PAUSED"
       THEN /\ should_pause_execution_' = FALSE
            /\ execution_state_' = "RUNNING"
            /\ UNCHANGED should_stop_execution_
       ELSE UNCHANGED ctlVars
    /\ UNCHANGED <<policy_checker_, todoVars, planVars, reqVars, pc, batch, result>>

\* a stop that changes the state and leaves should_stop_execution_ alone:
\* the fault that TransitionTable excludes
stop_execution_without_flag ==
    /\ IF execution_state_ = "RUNNING" \/ execution_state_ = "PAUSED"
       THEN /\ execution_state_' = "STOPPED"
            /\ UNCHANGED <<should_stop_execution_, should_pause_execution_>>
       ELSE UNCHANGED ctlVars
    /\ UNCHANGED <<policy_checker_, todoVars, planVars, reqVars, pc, batch, result>>

\* Coordinator::stop_execution
stop_execution ==
    /\ IF execution_state_ = "RUNNING" \/ execution_state_ = "PAUSED"
       THEN /\ should_stop_execution_' = TRUE
            /\ execution_state_' = "STOPPED"
            /\ UNCHANGED should_pause_execution_
       ELSE UNCHANGED ctlVars
    /\ UNCHANGED <<policy_checker_, todoVars, planVars, reqVars, pc, batch, result>>

\* Coordinator::cancel_execution
cancel_execution ==
    /\ IF execution_state_ = "RUNNING" \/ execution_state_ = "PAUSED"
       THEN /\ should_stop_execution_' = TRUE
            /\ execution_state_' = "CANCELLED"
            /\ UNCHANGED should_pause_execution_
       ELSE UNCHANGED ctlVars
    /\ UNCHANGED <<policy_checker_, todoVars, planVars, reqVars, pc, batch, result>>

\* Coordinator::run in plan mode up to the confirmation prompt: what it
\* prints, what it sent to the file tool, whether it stops at the prompt
run_plan_step(doc, always, plan, dry_ok, apply_ok) ==
    IF plan.command = "throw"
    THEN [output |-> "Error", file |-> <<>>, prompt |-> FALSE]
    ELSE IF plan.path = <<>>
    THEN [output |-> "Error", file |-> <<>>, prompt |-> FALSE]
    ELSE IF plan.command # "WriteFile"
    THEN [output |-> "Error", file |-> <<>>, prompt |-> FALSE]
    ELSE IF ~is_allowed_path(doc, plan.path)
    THEN [output |-> "Policy Denied", file |-> <<>>, prompt |-> FALSE]
    ELSE IF ~dry_ok
    THEN [output |-> "Dry run failed",
          file |-> <<FileRequest("dry_run", plan.path)>>, prompt |-> FALSE]
    ELSE IF ~always
    THEN [output |-> "Apply this change?",
          file |-> <<FileRequest("dry_run", plan.path)>>, prompt |-> TRUE]
    ELSE [output |-> IF apply_ok THEN "Applied" ELSE "Operation failed",
          file |-> <<FileRequest("dry_run", plan.path), FileRequest("apply", plan.path)>>,
          prompt |-> FALSE]

\* Coordinator::run with chat mode off, until it returns or waits for input
run_plan ==
    /\ pc = "idle"
    /\ ~chat_mode_
    /\ \E plan \in Plans \cup {PlanThrows}, dry_ok \in BOOLEAN, apply_ok \in BOOLEAN :
          LET step == run_plan_step(policy_checker_, always_approve_, plan, dry_ok, apply_ok)
          IN  /\ output' = step.output
              /\ file_requests' = step.file
              /\ bash_requests' = <<>>
              /\ pc' = IF step.prompt THEN "confirm" ELSE "return"
              /\ command' = plan
    /\ UNCHANGED <<policy_checker_, todoVars, ctlVars, always_approve_, chat_mode_,
                   batch, result, input>>

\* Coordinator::run from the answer to the prompt to its return
confirm ==
    /\ pc = "confirm"
    /\ \E input_line \in Inputs, apply_ok \in BOOLEAN :
          LET answer == get_user_confirmation(input_line)
          IN  /\ input' = [read |-> TRUE, line |-> input_line]
              /\ always_approve_' = (always_approve_ \/ answer.always)
              /\ IF answer.confirmed
                 THEN /\ file_requests' =
                            Append(file_requests, FileRequest("apply", command.path))
                      /\ output' = IF apply_ok THEN "Applied" ELSE "Operation failed"
                 ELSE /\ file_requests' = file_requests
                      /\ output' = "Operation cancelled"
    /\ pc' = "return"
    /\ UNCHANGED <<policy_checker_, todoVars, ctlVars, chat_mode_, bash_requests,
                   batch, result, command>>

\* a return that switches always-approve off after an operation that failed:
\* the fault that AlwaysApproveStays excludes
return_to_caller_resetting_approval ==
    /\ pc = "return"
    /\ pc' = "idle"
    /\ command' = NoCommand
    /\ output' = ""
    /\ input' = NoInput
    /\ result' = "none"
    /\ file_requests' = <<>>
    /\ bash_requests' = <<>>
    /\ always_approve_' = (always_approve_ /\ output \notin {"Operation failed", "Error"})
    /\ UNCHANGED <<policy_checker_, todoVars, ctlVars, chat_mode_, batch>>

\* the return of run() or execute_generic_command to its caller: the locals
\* of the call are gone
return_to_caller ==
    /\ pc = "return"
    /\ pc' = "idle"
    /\ command' = NoCommand
    /\ output' = ""
    /\ input' = NoInput
    /\ result' = "none"
    /\ file_requests' = <<>>
    /\ bash_requests' = <<>>
    /\ UNCHANGED <<policy_checker_, todoVars, ctlVars, always_approve_, chat_mode_, batch>>

\* parse_and_execute_todo_operations on execute_next() in the reply
interpret_execute_next ==
    /\ pc = "idle"
    /\ chat_mode_
    /\ LET next == get_next_pending(todos_)
       IN  IF next = 0
           THEN UNCHANGED <<pc, batch, result>>
           ELSE start_items("resp_next", <<todos_[find_todo(todos_, next)]>>)
    /\ UNCHANGED <<policy_checker_, todoVars, ctlVars, planVars, reqVars>>

\* parse_and_execute_todo_operations on execute_all() in the reply
interpret_execute_all ==
    /\ pc = "idle"
    /\ chat_mode_
    /\ LET pending_todos == get_pending_todos(todos_)
       IN  IF pending_todos = <<>>
           THEN UNCHANGED <<pc, batch, result>>
           ELSE start_items("resp_all", pending_todos)
    /\ UNCHANGED <<policy_checker_, todoVars, ctlVars, planVars, reqVars>>

\* parse_and_execute_todo_operations on execute_todo(<id>) in the reply
interpret_execute_todo(todo_id) ==
    /\ pc = "idle"
    /\ chat_mode_
    /\ LET i == find_todo(todos_, todo_id)
       IN  IF i # 0 /\ todos_[i].status = "pending"
           THEN start_items("resp_todo", <<todos_[i]>>)
           ELSE UNCHANGED <<pc, batch, result>>
    /\ UNCHANGED <<policy_checker_, todoVars, ctlVars, planVars, reqVars>>

GenericCommands == {CmdLs, <<"r", "m", " ", "a">>}

\* Coordinator::execute_generic_command (it has no caller in the repository)
execute_generic_command ==
    /\ pc = "idle"
    /\ \E o \in {execute_generic_file(policy_checker_, path, dry_ok, apply_ok) :
                    path \in PlanPaths \ {<<>>}, dry_ok \in BOOLEAN, apply_ok \in BOOLEAN}
             \cup {execute_generic_bash(policy_checker_, c, sent, exec_ok) :
                    c \in GenericCommands, sent \in BOOLEAN, exec_ok \in BOOLEAN} :
          /\ result' = IF o.ok THEN "returned" ELSE "threw"
          /\ file_requests' = o.file
          /\ bash_requests' = o.bash
    /\ pc' = "return"
    /\ UNCHANGED <<policy_checker_, todoVars, ctlVars, planVars, batch>>

(***************************************************************************)
(* The coordinator driven through its public interface: the control calls  *)
(* may arrive at any point of a running batch.                             *)
(***************************************************************************)
Init ==
    /\ InitCoordinator
    /\ query = NoQuery
    /\ stdin = <<>>
    /\ InitTools
    /\ InitConversation
    /\ InitAdapter

Idle == UNCHANGED <<query, stdin, toolVars, convVars, netVars>>

AddTodo == (\E title \in Prompts : add_todo(title)) /\ Idle
SetChatMode == (\E enabled \in BOOLEAN : set_chat_mode(enabled)) /\ Idle
ToggleChatMode == toggle_chat_mode /\ Idle
ExecuteTodos == execute_todos /\ Idle
ExecuteNextTodo == execute_next_todo /\ Idle
ExecuteTodosUntil == (\E stop_id \in 1..(MaxTodos + 1) : execute_todos_until(stop_id)) /\ Idle
ExecuteTodosRange ==
    (\E start_id \in 1..MaxTodos, end_id \in 1..MaxTodos :
        execute_todos_range(start_id, end_id)) /\ Idle
DoSingle == (\E todo_id \in 1..MaxTodos : do_single(todo_id)) /\ Idle
InterpretExecuteNext == interpret_execute_next /\ Idle
InterpretExecuteAll == interpret_execute_all /\ Idle
InterpretExecuteTodo == (\E todo_id \in 1..MaxTodos : interpret_execute_todo(todo_id)) /\ Idle
ExecuteGenericCommand == execute_generic_command /\ Idle
LoopCheckStop == loop_check_stop /\ Idle
LoopPauseWait == loop_pause_wait /\ Idle
LoopCheckStop2 == loop_check_stop2 /\ Idle
BeginItem == begin_item /\ Idle
RunItem == run_item /\ Idle
EndItem == end_item /\ Idle
LoopReset == loop_reset /\ Idle
RunPlan == run_plan /\ Idle
Confirm == confirm /\ Idle
ReturnToCaller == return_to_caller /\ Idle
Pause == pause_execution /\ Idle
Resume == resume_execution /\ Idle
Stop == stop_execution /\ Idle
Cancel == cancel_execution /\ Idle

Next ==
    \/ AddTodo \/ SetChatMode \/ ToggleChatMode
    \/ ExecuteTodos \/ ExecuteNextTodo \/ ExecuteTodosUntil \/ ExecuteTodosRange
    \/ DoSingle \/ InterpretExecuteNext \/ InterpretExecuteAll \/ InterpretExecuteTodo
    \/ ExecuteGenericCommand
    \/ LoopCheckStop \/ LoopPauseWait \/ LoopCheckStop2
    \/ BeginItem \/ RunItem \/ EndItem \/ LoopReset
    \/ RunPlan \/ Confirm \/ ReturnToCaller
    \/ Pause \/ Resume \/ Stop \/ Cancel

Spec == Init /\ [][Next]_vars

(***************************************************************************)
(* The policy engine on its own: one is_allowed call on any document, tool,*)
(* operation and path of the bounded input space.                          *)
(***************************************************************************)
PathChars == {"s", "w", "/", "."}
QueryPaths == StringsUpTo(PathChars, MaxPathLen) \ {<<>>}

InitPolicy ==
    /\ InitCoordinator
    /\ policy_checker_ = DocDefault
    /\ stdin = <<>>
    /\ InitTools
    /\ InitConversation
    /\ InitAdapter
    /\ query \in [pc : {"ask"}, doc : PolicyDocs, tool : ToolNames, op : Operations,
                  path : QueryPaths, result : {FALSE}]

\* the call PolicyChecker::is_allowed(tool, operation, path) and its answer
AskIsAllowed ==
    /\ query.pc = "ask"
    /\ query' = [query EXCEPT !.pc = "done",
                              !.result = is_allowed(query.doc, query.tool, query.op, query.path)]
    /\ UNCHANGED <<policy_checker_, todoVars, ctlVars, planVars, reqVars, pc, batch,
                   result, stdin, toolVars, convVars, netVars>>

NextPolicy == AskIsAllowed

SpecPolicy == InitPolicy /\ [][NextPolicy]_vars

(***************************************************************************)
(* The interactive shell (CLIInterface::run): one thread reads a line,     *)
(* handles it to the end, and only then reads the next line.  What the     *)
(* user types meanwhile waits in the terminal's buffer.                    *)
(***************************************************************************)
Lines == {"/do all", "/pause", "/resume", "/stop", "/cancel", "chat"}

\* a batch of /do all stands between two of its items
between_items == batch.kind = "all" /\ pc = "check_stop" /\ batch.idx > 1

InitCLI ==
    /\ InitCoordinator
    /\ query = NoQuery
    /\ stdin = <<>>
    /\ InitTools
    /\ InitConversation
    /\ InitAdapter

\* the user types a line; between records that a /do all batch stood
\* between two items at that moment
UserTypes ==
    /\ Len(stdin) < MaxStdin
    /\ \E text \in Lines :
          stdin' = Append(stdin, [text |-> text, between |-> between_items])
    /\ UNCHANGED <<query, policy_checker_, todoVars, ctlVars, planVars, reqVars, pc,
                   batch, result, toolVars, convVars, netVars>>

\* CLIInterface::run reads the next line once the previous command returned
reads(text) ==
    /\ pc = "idle"
    /\ stdin # <<>>
    /\ Head(stdin).text = text
    /\ stdin' = Tail(stdin)
    /\ UNCHANGED <<query, toolVars, convVars, netVars>>

\* CLIInterface::handle_slash_command and handle_do_command on the line
CliDoAll == reads("/do all") /\ execute_todos
CliPause == reads("/pause") /\ pause_execution
CliResume == reads("/resume") /\ resume_execution
CliStop == reads("/stop") /\ stop_execution
CliCancel == reads("/cancel") /\ cancel_execution

\* CLIInterface::handle_command on a chat line whose reply adds a todo
CliChat == reads("chat") /\ \E title \in Prompts : add_todo(title)

NextCLI ==
    \/ UserTypes
    \/ CliDoAll \/ CliPause \/ CliResume \/ CliStop \/ CliCancel \/ CliChat
    \/ LoopCheckStop \/ LoopPauseWait \/ LoopCheckStop2
    \/ BeginItem \/ RunItem \/ EndItem \/ LoopReset

SpecCLI == InitCLI /\ [][NextCLI]_vars

(***************************************************************************)
(* Properties.                                                             *)
(***************************************************************************)
\* the status the store holds for the todo with the given id
status_of(todos, id) == todos[find_todo(todos, id)].status

\* the file tool was asked to apply
apply_requested == \E i \in DOMAIN file_requests : file_requests[i].operation = "apply"

\* C1: on every execution path (plan-mode run, file-operation todo,
\* shell-command todo, generic command) whatever went to the file tool or to
\* the bash tool was approved by the policy checker first, for that very path
\* or command string; after a denial nothing went to either tool.
PolicyBeforeExecution ==
    /\ \A i \in DOMAIN file_requests :
          /\ is_allowed(policy_checker_, "file_tool", "READ", file_requests[i].path)
          /\ command # NoCommand => file_requests[i].path = command.path
    /\ \A i \in DOMAIN bash_requests :
          /\ ~is_bash_command_blocked(policy_checker_, bash_requests[i])
          /\ is_bash_command_allowed(policy_checker_, bash_requests[i])
    /\ output = "Policy Denied" => file_requests = <<>> /\ bash_requests = <<>>

\* C1 happens: a file-operation todo got as far as apply
PolicyBeforeExecutionWitness ==
    /\ pc = "end_item"
    /\ apply_requested
    /\ is_allowed(policy_checker_, "file_tool", "READ", file_requests[1].path)

\* C2: for every policy document, tool and operation, a path that contains
\* ".." is denied.
DotDotDenied ==
    (query.pc = "done" /\ Find(query.path, DOTDOT) # NPOS) => query.result = FALSE

\* C3: a write-file plan is judged by the create sub-policy of the file tool:
\* when that sub-policy allows only "s/", a plan whose path does not begin
\* with "s/" ends in Policy Denied and nothing goes to the file tool.
PlanJudgedByCreatePolicy ==
    ( /\ pc \in {"confirm", "return"}
      /\ command.command = "WriteFile"
      /\ command.path # <<>>
      /\ policy_checker_.tools["file_tool"]["CREATE"].allowed_directories = <<DirS>>
      /\ Find(command.path, DirS) # 0 )
    => (output = "Policy Denied" /\ file_requests = <<>>)

\* C4: the control commands follow the transition table: pause takes RUNNING
\* to PAUSED and sets should_pause; resume takes PAUSED to RUNNING and clears
\* should_pause; stop takes RUNNING or PAUSED to STOPPED and sets should_stop;
\* cancel takes RUNNING or PAUSED to CANCELLED and sets should_stop; in
\* STOPPED or CANCELLED every control command leaves state and flags alone.
TransitionTable ==
    [][ /\ pause_execution =>
              IF execution_state_ = "RUNNING"
              THEN execution_state_' = "PAUSED" /\ should_pause_execution_'
              ELSE UNCHANGED ctlVars
        /\ resume_execution =>
              IF execution_state_ = "PAUSED"
              THEN execution_state_' = "RUNNING" /\ ~should_pause_execution_'
              ELSE UNCHANGED ctlVars
        /\ stop_execution =>
              IF execution_state_ \in {"RUNNING", "PAUSED"}
              THEN execution_state_' = "STOPPED" /\ should_stop_execution_'
              ELSE UNCHANGED ctlVars
        /\ cancel_execution =>
              IF execution_state_ \in {"RUNNING", "PAUSED"}
              THEN execution_state_' = "CANCELLED" /\ should_stop_execution_'
              ELSE UNCHANGED ctlVars ]_vars

\* C4 happens: a batch was paused and then stopped
TransitionTableWitness ==
    /\ execution_state_ = "STOPPED"
    /\ should_stop_execution_
    /\ should_pause_execution_

PauseBetweenItemsDelivered ==
    [][ ( /\ stdin # <<>>
          /\ Head(stdin).text = "/pause"
          /\ Head(stdin).between
          /\ stdin' = Tail(stdin) )
        => execution_state_' = "PAUSED" ]_vars

\* C7: when an item of a batch fails the batch stops: the call ends without
\* going on to another item.
FailureStopsBatch ==
    [][ (pc = "end_item" /\ result = "threw" /\ pc' # pc)
        => pc' \in {"idle", "reset"} ]_vars

\* C8: a todo becomes completed only in the step after its executor
\* returned, and an item whose executor threw is in-progress when that step
\* has been taken; on every execution path.
CompletedOnlyOnSuccess ==
    [][ /\ \A i \in DOMAIN todos_ :
              (todos_[i].status # "completed" /\ todos_'[i].status = "completed")
              => /\ pc = "end_item"
                 /\ result = "returned"
                 /\ todos_[i].id = current_todo.id
        /\ (pc = "end_item" /\ result = "threw" /\ pc' # pc)
              => status_of(todos_', current_todo.id) = "in_progress" ]_vars

\* C8 happens: a call has ended and the item that failed in it is in-progress
CompletedOnlyOnSuccessWitness ==
    /\ pc = "idle"
    /\ \E i \in DOMAIN todos_ : todos_[i].status = "in_progress"

\* C9: execute_next, execute_until and execute_range are in the RUNNING state
\* (or PAUSED, or stopping) for as long as they execute, like execute_all.
OtherBatchesRun ==
    batch.kind \in {"next", "until", "range"}
    => (execution_state_ \in {"RUNNING", "PAUSED"} \/ should_stop_execution_)

\* C10 as stated: the answer a or A confirms and sets always-approve, the
\* answer y or Y confirms once, every other answer cancels.
ConfirmationByWholeAnswer ==
    (pc = "return" /\ input.read) =>
        IF input.line \in {<<"a">>, <<"A">>}
        THEN always_approve_ /\ apply_requested
        ELSE IF input.line \in {<<"y">>, <<"Y">>}
        THEN ~always_approve_ /\ apply_requested
        ELSE ~always_approve_ /\ ~apply_requested /\ output = "Operation cancelled"

\* C10: the first character of the answer decides: a or A confirms and sets
\* always-approve, y or Y confirms this operation and leaves the flag off,
\* every other answer and the empty answer cancel, with the operation
\* reported as cancelled and apply not requested.
ConfirmationByFirstCharacter ==
    (pc = "return" /\ input.read) =>
        LET first == IF input.line = <<>> THEN "" ELSE input.line[1]
        IN  IF first \in {"a", "A"}
            THEN always_approve_ /\ apply_requested
                 /\ output \in {"Applied", "Operation failed"}
            ELSE IF first \in {"y", "Y"}
            THEN ~always_approve_ /\ apply_requested
                 /\ output \in {"Applied", "Operation failed"}
            ELSE ~always_approve_ /\ ~apply_requested /\ output = "Operation cancelled"

\* C10 happens: an answer beginning with y that is not y alone was applied
ConfirmationByFirstCharacterWitness ==
    /\ pc = "return"
    /\ input.read
    /\ input.line = <<"y", "a">>
    /\ apply_requested

\* C11: once always_approve_ is set it stays set, whatever fails afterwards,
\* and from then on no plan-mode operation stops at the confirmation prompt:
\* one that passed validation, policy and dry run has been applied when run()
\* returns.
AlwaysApproveStays ==
    /\ [][always_approve_ => always_approve_']_vars
    /\ [](always_approve_ => pc # "confirm")
    /\ []((always_approve_ /\ pc = "return" /\ command.command = "WriteFile"
             /\ output \notin {"Error", "Policy Denied", "Dry run failed"})
          => apply_requested)

\* C11 happens: with the flag set, an operation was applied without an
\* answer having been read
AlwaysApproveStaysWitness ==
    /\ always_approve_
    /\ pc = "return"
    /\ ~input.read
    /\ apply_requested
    /\ output = "Applied"

\* C12: in plan mode a plan with command "write" and a path the policy
\* allows is taken as a recognized command: it gets its dry run, and after
\* the answer y exactly one apply.
WritePlanAccepted ==
    ( /\ pc \in {"confirm", "return"}
      /\ command.command = "write"
      /\ command.path # <<>>
      /\ is_allowed_path(policy_checker_, command.path) )
    => /\ output # "Error"
       /\ \E i \in DOMAIN file_requests : file_requests[i].operation = "dry_run"
       /\ (input.read /\ input.line = <<"y">>)
             => Cardinality({i \in DOMAIN file_requests :
                                file_requests[i].operation = "apply"}) = 1

(***************************************************************************)
(* The todo store on its own (TodoManager): add, update, delete and clear   *)
(* in any order, and the three selections asked of the store as it is.     *)
(***************************************************************************)
StoreTitles == {PromptNote, <<>>}
StoreIds == 1..MaxId
Statuses == {"pending", "in_progress", "completed"}

\* everything but the store and the answer of the last selection
nonStoreVars == <<policy_checker_, ctlVars, planVars, reqVars, pc, batch, result, stdin,
                  toolVars, convVars, netVars>>

InitTodo ==
    /\ InitCoordinator
    /\ policy_checker_ = DocDefault
    /\ query = NoQuery
    /\ stdin = <<>>
    /\ InitTools
    /\ InitConversation
    /\ InitAdapter

\* a selection and its answer; a and b are its arguments
Selection(name, a, b, answer) == [pc |-> name, a |-> a, b |-> b, result |-> answer]

TodoAdd ==
    /\ Len(todos_) < MaxStore
    /\ next_id_ <= MaxId
    /\ \E title \in StoreTitles, now \in Times : TodoManager_add_todo(title, now)
    /\ query' = NoQuery
    /\ UNCHANGED nonStoreVars

TodoUpdate ==
    /\ \E id \in StoreIds, status \in Statuses : update_todo(id, status)
    /\ query' = NoQuery
    /\ UNCHANGED nonStoreVars

TodoDelete ==
    /\ \E id \in StoreIds : delete_todo(id)
    /\ query' = NoQuery
    /\ UNCHANGED nonStoreVars

TodoClear ==
    /\ clear_todos
    /\ query' = NoQuery
    /\ UNCHANGED nonStoreVars

AskQueue ==
    /\ query' = Selection("queue", 0, 0, get_execution_queue(todos_))
    /\ UNCHANGED <<todoVars, nonStoreVars>>

AskUntil ==
    /\ \E stop_id \in StoreIds :
          query' = Selection("until", stop_id, 0, get_todos_until(todos_, stop_id))
    /\ UNCHANGED <<todoVars, nonStoreVars>>

AskRange ==
    /\ \E start_id \in StoreIds, end_id \in StoreIds :
          query' = Selection("range", start_id, end_id,
                             get_todos_range(todos_, start_id, end_id))
    /\ UNCHANGED <<todoVars, nonStoreVars>>

NextTodo ==
    \/ TodoAdd \/ TodoUpdate \/ TodoDelete \/ TodoClear
    \/ AskQueue \/ AskUntil \/ AskRange

SpecTodo == InitTodo /\ [][NextTodo]_vars

\* the first position of the id in a list of items, 0 when it is not there
position_of(items, id) ==
    LET hits == {i \in 1..Len(items) : items[i].id = id}
    IN  IF hits = {} THEN 0 ELSE CHOOSE i \in hits : \A j \in hits : i <= j

\* C13: the execution queue is the pending items in insertion order, so its
\* ids are strictly increasing.
QueueInInsertionOrder ==
    query.pc = "queue" =>
        /\ query.result = get_pending_todos(todos_)
        /\ \A i \in 1..Len(query.result), j \in 1..Len(query.result) :
              i < j => query.result[i].id < query.result[j].id

\* C14: until(stop_id) is the part of the pending queue before the item with
\* id stop_id, without that item; it is the whole pending queue only when
\* the queue holds no item with this id.
UntilIsTheSliceBefore ==
    query.pc = "until" =>
        LET queue == get_execution_queue(todos_)
            at == position_of(queue, query.a)
        IN  /\ at = 0 => query.result = queue
            /\ at # 0 => query.result = SubSeq(queue, 1, at - 1)
            /\ query.result = queue => at = 0
            /\ \A i \in 1..Len(query.result) :
                  /\ query.result[i].status = "pending"
                  /\ query.result[i].id # query.a

\* C14 happens: the id is the second of three pending items
UntilIsTheSliceBeforeWitness ==
    /\ query.pc = "until"
    /\ Len(get_execution_queue(todos_)) = 3
    /\ position_of(get_execution_queue(todos_), query.a) = 2
    /\ Len(query.result) = 1

\* C15: range(a, b) is empty whenever a > b or a is not in the pending
\* queue; otherwise it is the pending items from a through b, both included.
RangeEmptyOrInclusive ==
    query.pc = "range" =>
        LET queue == get_execution_queue(todos_)
            from == position_of(queue, query.a)
            to == position_of(queue, query.b)
        IN  IF query.a > query.b \/ from = 0
            THEN query.result = <<>>
            ELSE to >= from => query.result = SubSeq(queue, from, to)

\* C16: no id add_todo returns was returned by an earlier add_todo: the ids
\* come out in strictly increasing order, whatever was updated, deleted or
\* cleared in between.
IdsNeverReused ==
    \A i \in 1..Len(issued), j \in 1..Len(issued) : i < j => issued[i] < issued[j]

\* C16 happens: an item was deleted or cleared away and an item added later
\* is in the store
IdsNeverReusedWitness ==
    \E i \in 1..Len(issued), j \in 1..Len(issued) :
        /\ i < j
        /\ position_of(todos_, issued[i]) = 0
        /\ position_of(todos_, issued[j]) # 0

(***************************************************************************)
(* The file tool on its own (FileTool behind the file tool service): dry   *)
(* runs and applies on any disk.                                           *)
(***************************************************************************)
\* everything but the tools and the answer of the last call
nonToolVars == <<policy_checker_, todoVars, ctlVars, planVars, reqVars, pc, batch, result,
                 stdin, convVars, netVars>>

InitFile ==
    /\ InitCoordinator
    /\ policy_checker_ = DocDefault
    /\ query = NoQuery
    /\ stdin = <<>>
    /\ filesystem \in Disks
    /\ current_working_directory_ = CWD
    /\ shell = <<>>
    /\ InitConversation
    /\ InitAdapter

\* the request "dry_run" of the file tool service
FileDryRun ==
    /\ \E path \in FilePaths, content \in Contents : FileTool_dry_run(path, content)
    /\ UNCHANGED <<nonToolVars, current_working_directory_, shell>>

\* the request "apply" of the file tool service
FileApply ==
    /\ \E path \in FilePaths, content \in Contents : FileTool_apply(path, content)
    /\ UNCHANGED <<nonToolVars, current_working_directory_, shell>>

NextFile == FileDryRun \/ FileApply

SpecFile == InitFile /\ [][NextFile]_vars

\* the node the disk holds under a relative path of the tool
path_node(fs, path) ==
    IF path = <<>> THEN Absent ELSE node_at(fs, CWD \o <<SLASH>> \o path)

\* a directory on the way to the path has lost its search permission
barred(fs, path) ==
    \E d \in FsPaths :
       /\ OccursAt(CWD \o <<SLASH>> \o path, d \o <<SLASH>>, 0)
       /\ fs[d].kind = "dir"
       /\ ~fs[d].search

\* C17 as the specification states it: a dry run leaves the disk as it was
\* and reports "create new file" exactly when the path does not exist and
\* "overwrite existing file" otherwise.
DryRunReportsCreateOrOverwrite ==
    /\ [][query'.pc = "dry_run" => filesystem' = filesystem]_vars
    /\ [](query.pc = "dry_run" =>
            IF path_node(filesystem, query.path).kind = "absent"
            THEN query.description.phrase = "Will create new file"
            ELSE query.description.phrase = "Will overwrite existing file")

\* C17, amended: a dry run leaves the disk as it was.  It fails, with an
\* empty description, exactly when a directory on the way to the path cannot
\* be searched; otherwise it succeeds and reports "create new file" exactly
\* when the path does not exist and "overwrite existing file" otherwise, with
\* the path and the number of bytes of the content.
DryRunReportsAndTouchesNothing ==
    /\ [][query'.pc = "dry_run" => filesystem' = filesystem]_vars
    /\ [](query.pc = "dry_run" =>
            /\ query.success <=> ~barred(filesystem, query.path)
            /\ ~query.success => query.description = NoDescription
            /\ query.success =>
                  /\ query.description.path = query.path
                  /\ query.description.bytes = Len(query.content)
                  /\ IF path_node(filesystem, query.path).kind = "absent"
                     THEN query.description.phrase = "Will create new file"
                     ELSE query.description.phrase = "Will overwrite existing file")

\* a dry run of s/a with one byte of content on a disk that holds the file:
\* it reports an overwrite of one byte
DryRunReportsAndTouchesNothingWitness ==
    /\ query.pc = "dry_run"
    /\ query.path = <<"s", "/", "a">>
    /\ query.success
    /\ query.description = Description("Will overwrite existing file", <<"s", "/", "a">>, 1)
    /\ filesystem[CWD \o <<"/", "s", "/", "a">>] = File(<<"x">>)

(***************************************************************************)
(* The policy engine asked about commands: one is_bash_command_allowed     *)
(* call on any document and any command of the bounded input space.        *)
(***************************************************************************)
CommandChars == {"l", "s", "r", "m", " ", "\t"}
QueryCommands == StringsUpTo(CommandChars, MaxCommandLen)

CommandQuery(name, doc, text, answer) ==
    [pc |-> name, doc |-> doc, command |-> text, result |-> answer]

InitCommand ==
    /\ InitCoordinator
    /\ policy_checker_ = DocDefault
    /\ stdin = <<>>
    /\ InitTools
    /\ InitConversation
    /\ InitAdapter
    /\ query \in {CommandQuery("ask", doc, text, FALSE) :
                     doc \in PolicyDocs, text \in QueryCommands}

\* the call PolicyChecker::is_bash_command_allowed(command) and its answer
AskCommandAllowed ==
    /\ query.pc = "ask"
    /\ query' = CommandQuery("done", query.doc, query.command,
                             is_bash_command_allowed(query.doc, query.command))
    /\ UNCHANGED <<nonToolVars, toolVars>>

NextCommand == AskCommandAllowed

SpecCommand == InitCommand /\ [][NextCommand]_vars

\* the first whitespace-delimited token of a text, empty when it has none
first_token(text) ==
    LET start == FindFirstNotOf(text, Whitespace)
        rest  == IF start = NPOS THEN <<>> ELSE SubstrFrom(text, start)
        stop  == FindFirstOf(rest, Whitespace, 0)
    IN  IF stop = NPOS THEN rest ELSE Substr(rest, 0, stop)

\* C18: under a document with a bash_tool section, a command that contains
\* an entry of the blocked-commands list is refused; any other command is
\* allowed exactly when the allowed-commands list is empty or holds the
\* first whitespace-delimited token of the command.
CommandAllowedByFirstToken ==
    (query.pc = "done" /\ "bash_tool" \in DOMAIN query.doc.tools) =>
        LET create  == query.doc.tools["bash_tool"]["CREATE"]
            blocked == create.blocked_commands
            allowed == create.allowed_commands
        IN  IF \E i \in 1..Len(blocked) : Find(query.command, blocked[i]) # NPOS
            THEN query.result = FALSE
            ELSE query.result <=>
                    \/ allowed = <<>>
                    \/ \E i \in 1..Len(allowed) : allowed[i] = first_token(query.command)

(***************************************************************************)
(* The bash tool service on its own: requests from the coordinator and     *)
(* from any other client of the socket.                                    *)
(***************************************************************************)
InitBash ==
    /\ InitCoordinator
    /\ policy_checker_ = DocDefault
    /\ query = NoQuery
    /\ stdin = <<>>
    /\ InitTools
    /\ InitConversation
    /\ InitAdapter

\* Coordinator::request_bash_execution for a BashCommand
CoordinatorExecutes ==
    /\ Len(shell) < MaxRuns
    /\ \E text \in BashCommands, working_directory \in WorkingDirectories,
          delivered \in BOOLEAN :
          request_bash_execution(text, working_directory, delivered)
    /\ UNCHANGED nonToolVars

\* the request "execute", with or without the member working_directory
ClientExecutes ==
    /\ Len(shell) < MaxRuns
    /\ \E text \in BashCommands,
          field \in {NoField} \cup {Field(TRUE, d) : d \in WorkingDirectories} :
          handle_execute_command("execute", text, field, field.value)
    /\ UNCHANGED nonToolVars

\* the request "get_pwd"
ClientGetsPwd == handle_get_pwd /\ UNCHANGED nonToolVars

\* the request "set_pwd"
ClientSetsPwd ==
    /\ \E new_directory \in WorkingDirectories \ {<<>>} : handle_set_pwd(new_directory)
    /\ UNCHANGED nonToolVars

NextBash == CoordinatorExecutes \/ ClientExecutes \/ ClientGetsPwd \/ ClientSetsPwd

SpecBash == InitBash /\ [][NextBash]_vars

\* C19: no command line handed to the shell holds a command that matches a
\* dangerous pattern, and a request to execute such a command is answered
\* with a failure and leaves the service's working directory, the shell and
\* the disk as they were.
DangerousNeverReachesShell ==
    /\ [](\A i \in 1..Len(shell) : ~contains_dangerous_pattern(shell[i].command))
    /\ [][(/\ query'.pc \in {"execute", "request_bash_execution"}
           /\ contains_dangerous_pattern(query'.command))
          => /\ ~query'.success
             /\ current_working_directory_' = current_working_directory_
             /\ shell' = shell
             /\ filesystem' = filesystem]_vars

\* a request to run "cd s;rm a" was refused while the service stood in s,
\* where an earlier command had left it, and the file s/a is still there
DangerousNeverReachesShellWitness ==
    /\ query.pc = "execute"
    /\ query.command = <<"c", "d", " ", "s", ";", "r", "m", " ", "a">>
    /\ contains_dangerous_pattern(query.command)
    /\ ~query.success
    /\ shell # <<>>
    /\ current_working_directory_ = CWD \o <<"/", "s">>
    /\ filesystem[CWD \o <<"/", "s", "/", "a">>].kind = "file"

\* C20: when the coordinator executes a command and then, naming no working
\* directory and with nothing else having moved the service in between, a
\* second command, the second command runs in the directory the first left.
SecondCommandRunsWhereFirstLeft ==
    \A i \in 2..Len(shell) :
       (/\ shell[i - 1].by = "request_bash_execution"
        /\ shell[i].by = "request_bash_execution"
        /\ shell[i].asked = <<>>
        /\ shell[i].persistent = shell[i - 1].pwd)
       => shell[i].working_directory = shell[i - 1].pwd

\* C21: a command the shell ran and that exited with a non-zero status is
\* reported as failed, with that status as its exit code.
NonZeroExitReported ==
    \A i \in 1..Len(shell) :
       (shell[i].ran /\ shell[i].command_status # 0)
          => (~shell[i].success /\ shell[i].exit_code = shell[i].command_status)

(***************************************************************************)
(* The conversation store behind the interactive shell: chat lines, the    *)
(* provider and session commands typed at the prompt, and the calls of     *)
(* ConversationManager's public interface.                                 *)
(***************************************************************************)
\* everything but the conversation store and the record of the last call
nonConvVars == <<policy_checker_, todoVars, ctlVars, planVars, reqVars, pc, batch, result,
                 stdin, toolVars, netVars>>

\* the last call: its name, the line or name given, what a session command
\* came to, the session id it named and whether the call went through
ConversationCall(name, line, did, session_id, done) ==
    [pc |-> name, line |-> line, did |-> did, session_id |-> session_id, done |-> done]

\* the provider the shell is started with: none, or one by its name
ProviderOverrides == {"", "chatgpt"}

\* what the coordinator answers to a chat line: nothing, an error, a text
Responses == {<<>>, <<"E", "r", "r", "o", "r", ":", "x">>, <<"o", "k">>}

\* the chat line typed
ChatInput == <<"h", "i">>

\* the session commands typed
SessionLines ==
    {<<"/", "s", "e", "s", "s", "i", "o", "n">>, <<"/", "s", "e", "s", "s", "i", "o", "n", " ", "l", "i", "s", "t">>, <<"/", "s", "e", "s", "s", "i", "o", "n", " ", "n", "e", "w">>, <<"/", "s", "e", "s", "s", "i", "o", "n", " ", "l", "o", "a", "d">>,
     <<"/", "s", "e", "s", "s", "i", "o", "n", " ", "l", "o", "a", "d", " ", "s", "0">>, <<"/", "s", "e", "s", "s", "i", "o", "n", " ", "l", "o", "a", "d", " ", "s", "1">>}

InitSession ==
    /\ InitCoordinator
    /\ policy_checker_ = DocDefault
    /\ query = NoQuery
    /\ stdin = <<>>
    /\ InitTools
    /\ InitConversation
    /\ InitAdapter

\* CLIInterface::CLIInterface: the coordinator takes the provider it is
\* given and the manager starts a session that holds nothing
Construct ==
    /\ ~conversation_manager_.alive
    /\ \E now \in 0..MaxClock, provider_override \in ProviderOverrides :
          LET started == start_new_session(Manager(<<>>, <<>>, ""), session_files,
                                           generate_session_id(now), TRUE)
          IN  /\ conversation_manager_' = started.manager
              /\ session_files' = started.files
              /\ current_provider_' = set_provider(provider_override)
              /\ query' = ConversationCall("construct", <<>>, "", <<>>, TRUE)
    /\ UNCHANGED nonConvVars

\* CLIInterface::handle_command for a line that is no slash command: the
\* line joins the history, and so does an answer that is not empty and
\* does not start with "Error:", under the coordinator's current provider
ChatWithin(limit) ==
    /\ conversation_manager_.alive
    /\ \E response \in Responses :
          LET asked == add_user_message(conversation_manager_, ChatInput)
              kept == response # <<>> /\ Find(response, <<"E", "r", "r", "o", "r", ":">>) # 0
          IN  /\ Len(conversation_manager_.conversation_history_) + (IF kept THEN 2 ELSE 1)
                    <= limit
              /\ conversation_manager_' =
                    IF kept THEN add_assistant_message(asked, response, current_provider_)
                    ELSE asked
              /\ query' = ConversationCall("handle_command", ChatInput, "", <<>>, kept)
    /\ UNCHANGED <<session_files, current_provider_, nonConvVars>>

\* a chat line in a session that is kept short
ChatBriefly == ChatWithin(MaxSessionMessages)

\* a chat line
Chat == ChatWithin(MaxMessages)

\* CLIInterface::switch_provider_with_context: save, then switch; a throw
\* of the save leaves the provider as it was
TypeProvider ==
    /\ conversation_manager_.alive
    /\ \E provider_name \in FriendlyNames, disk_ok \in BOOLEAN :
          LET saved == save_to_disk(conversation_manager_, session_files, disk_ok)
          IN  /\ session_files' = saved.files
              /\ current_provider_' = IF saved.threw THEN current_provider_
                                      ELSE set_provider(provider_name)
              /\ query' = ConversationCall("switch_provider_with_context", provider_name,
                                           "", <<>>, ~saved.threw)
    /\ UNCHANGED <<conversation_manager_, nonConvVars>>

\* what a session command comes to
SessionCommand(did, session_id) == [did |-> did, session_id |-> session_id]

\* CLIInterface::handle_session_command, up to the call it makes
handle_session_command(session_command) ==
    LET start == FindFirstNotOf(session_command, {" "})
        trimmed_command == IF start # NPOS THEN SubstrFrom(session_command, start)
                           ELSE session_command
    IN  IF trimmed_command = <<>> \/ trimmed_command = <<" ", "l", "i", "s", "t">>
        THEN SessionCommand("list", <<>>)
        ELSE IF trimmed_command = <<" ", "n", "e", "w">> THEN SessionCommand("new", <<>>)
        ELSE IF Substr(trimmed_command, 0, 5) = <<" ", "l", "o", "a", "d">>
        THEN LET rest == SubstrFrom(trimmed_command, 5)
                 from == FindFirstNotOf(rest, {" "})
                 session_id == IF from # NPOS THEN SubstrFrom(rest, from) ELSE rest
             IN  IF session_id = <<>> THEN SessionCommand("usage", <<>>)
                 ELSE SessionCommand("load", session_id)
        ELSE SessionCommand("unknown", <<>>)

\* CLIInterface::handle_slash_command for a line that starts with "session"
handle_slash_command(slash_command) ==
    IF Substr(slash_command, 0, 7) = <<"s", "e", "s", "s", "i", "o", "n">>
    THEN handle_session_command(SubstrFrom(slash_command, 7))
    ELSE SessionCommand("unknown command", <<>>)

\* a session command typed at the prompt, and the call it makes
TypeSession ==
    /\ conversation_manager_.alive
    /\ \E line \in SessionLines, now \in 0..MaxClock, disk_ok \in BOOLEAN :
          LET called == handle_slash_command(SubstrFrom(line, 1))
              left == IF called.did = "new"
                      THEN start_new_session(conversation_manager_, session_files,
                                             generate_session_id(now), disk_ok)
                      ELSE IF called.did = "load"
                      THEN load_session(conversation_manager_, session_files,
                                        called.session_id, disk_ok)
                      ELSE Left(conversation_manager_, session_files, FALSE, FALSE)
          IN  /\ conversation_manager_' = left.manager
              /\ session_files' = left.files
              /\ query' = ConversationCall("handle_session_command", line, called.did,
                                           called.session_id,
                                           IF called.did = "load" THEN left.returned
                                           ELSE ~left.threw)
    /\ UNCHANGED <<current_provider_, nonConvVars>>

\* ConversationManager::save_to_disk called on its own
Save ==
    /\ conversation_manager_.alive
    /\ \E disk_ok \in BOOLEAN :
          LET left == save_to_disk(conversation_manager_, session_files, disk_ok)
          IN  /\ session_files' = left.files
              /\ query' = ConversationCall("save_to_disk", <<>>, "",
                                           conversation_manager_.session_id_, ~left.threw)
    /\ UNCHANGED <<conversation_manager_, current_provider_, nonConvVars>>

\* ConversationManager::start_new_session()
StartNewSession ==
    /\ conversation_manager_.alive
    /\ \E now \in 0..MaxClock, disk_ok \in BOOLEAN :
          LET left == start_new_session(conversation_manager_, session_files,
                                        generate_session_id(now), disk_ok)
          IN  /\ conversation_manager_' = left.manager
              /\ session_files' = left.files
              /\ query' = ConversationCall("start_new_session", <<>>, "",
                                           generate_session_id(now), ~left.threw)
    /\ UNCHANGED <<current_provider_, nonConvVars>>

\* ConversationManager::load_session(session_id)
LoadSession ==
    /\ conversation_manager_.alive
    /\ \E session_id \in SessionIds, disk_ok \in BOOLEAN :
          LET left == load_session(conversation_manager_, session_files, session_id, disk_ok)
          IN  /\ conversation_manager_' = left.manager
              /\ session_files' = left.files
              /\ query' = ConversationCall("load_session", <<>>, "", session_id, left.returned)
    /\ UNCHANGED <<current_provider_, nonConvVars>>

\* ConversationManager::clear_history
ClearHistory ==
    /\ conversation_manager_.alive
    /\ conversation_manager_' = clear_history(conversation_manager_)
    /\ query' = ConversationCall("clear_history", <<>>, "", <<>>, TRUE)
    /\ UNCHANGED <<session_files, current_provider_, nonConvVars>>

\* the shell goes away, and with it the manager
Destroy ==
    /\ conversation_manager_.alive
    /\ \E disk_ok \in BOOLEAN :
          LET left == destroy(conversation_manager_, session_files, disk_ok)
          IN  /\ conversation_manager_' = left.manager
              /\ session_files' = left.files
              /\ query' = ConversationCall("destroy", <<>>, "",
                                           conversation_manager_.session_id_, left.returned)
    /\ UNCHANGED <<current_provider_, nonConvVars>>

NextSession ==
    \/ Construct
    \/ ChatBriefly
    \/ TypeSession
    \/ Save
    \/ StartNewSession
    \/ LoadSession
    \/ ClearHistory
    \/ Destroy

SpecSession == InitSession /\ [][NextSession]_vars

\* the step is a session switch that went through: a new session was
\* started or a named session was loaded
switches_session ==
    /\ conversation_manager_.alive
    /\ conversation_manager_'.alive
    /\ query'.done
    /\ \/ query'.pc \in {"start_new_session", "load_session"}
       \/ query'.pc = "handle_session_command" /\ query'.did \in {"new", "load"}

\* C22: whenever the session is switched (a new session is started or a
\* named session is loaded) while it holds messages, the session file of
\* the prior session holds those messages once the switch is done.
PriorSessionWrittenOnSwitch ==
    [][(switches_session /\ conversation_manager_.conversation_history_ # <<>>)
          => session_files'[conversation_manager_.session_id_]
                = to_json(conversation_manager_)]_vars

\* C23: an empty session is never persisted: no session file holds an empty
\* list of messages, and a save, a new session or the teardown of a session
\* that holds no messages leaves every session file as it was.
EmptySessionNeverPersisted ==
    /\ [](\A id \in SessionIds : session_files[id].exists => session_files[id].messages # <<>>)
    /\ [][(/\ conversation_manager_.alive
           /\ conversation_manager_.conversation_history_ = <<>>
           /\ query'.pc \in {"save_to_disk", "start_new_session", "destroy",
                             "handle_session_command"})
             => session_files' = session_files]_vars

\* save_to_disk was called on a session that holds nothing, after a new
\* session was started, and went through; that session has no file while
\* the session before it has one
EmptySessionNeverPersistedWitness ==
    /\ query.pc = "save_to_disk"
    /\ query.done
    /\ conversation_manager_.conversation_history_ = <<>>
    /\ ~session_files[conversation_manager_.session_id_].exists
    /\ \E id \in SessionIds : session_files[id].exists

(***************************************************************************)
(* The shell's chat lines and provider commands on their own, from the     *)
(* state the constructor leaves.                                           *)
(***************************************************************************)
InitProvider ==
    /\ InitCoordinator
    /\ policy_checker_ = DocDefault
    /\ query = NoQuery
    /\ stdin = <<>>
    /\ InitTools
    /\ \E now \in 0..MaxClock :
          conversation_manager_ = Manager(generate_session_id(now), <<>>, "")
    /\ session_files = [id \in SessionIds |-> NoFile]
    /\ current_provider_ \in {set_provider(provider_override) :
                                 provider_override \in ProviderOverrides}
    /\ InitAdapter

NextProvider ==
    \/ Chat
    \/ TypeProvider

SpecProvider == InitProvider /\ [][NextProvider]_vars

\* the name of the adapter behind a friendly name
InternalName ==
    [provider_name \in FriendlyNames |->
        CASE provider_name = "chatgpt" -> "openai"
          [] provider_name = "claude" -> "anthropic"
          [] OTHER -> provider_name]

\* C25: a provider switch leaves the conversation history as it was and
\* makes the adapter of the typed name the current one (chatgpt is openai,
\* claude is anthropic); the next chat line that is answered appends the
\* user message and the assistant message after the existing messages, the
\* assistant message under the current adapter's name; a chat line never
\* changes the adapter.
SwitchKeepsHistoryAndRecordsAdapter ==
    [][/\ (query'.pc = "switch_provider_with_context" /\ query'.done)
             => /\ conversation_manager_' = conversation_manager_
                /\ current_provider_' = InternalName[query'.line]
       /\ (query'.pc = "handle_command")
             => /\ current_provider_' = current_provider_
                /\ LET before == conversation_manager_.conversation_history_
                       after == conversation_manager_'.conversation_history_
                   IN  /\ SubSeq(after, 1, Len(before)) = before
                       /\ query'.done
                             => /\ Len(after) = Len(before) + 2
                                /\ after[Len(after)].role = "assistant"
                                /\ after[Len(after)].provider = current_provider_]_vars

\* a session answered by openai was switched to claude, and the next answer
\* stands last of four messages under the name anthropic
SwitchKeepsHistoryAndRecordsAdapterWitness ==
    /\ query.pc = "handle_command"
    /\ query.done
    /\ Len(conversation_manager_.conversation_history_) = 4
    /\ conversation_manager_.conversation_history_[2].provider = "openai"
    /\ conversation_manager_.conversation_history_[4].provider = "anthropic"
    /\ current_provider_ = "anthropic"

(***************************************************************************)
(* Trimming on its own: any history of short and long messages, trimmed to *)
(* a token budget or to a number of messages.                              *)
(***************************************************************************)
\* contents estimated at 0, 1 and 2 tokens
TrimContents == {<<"a", "b", "c">>, <<"a", "b", "c", "d">>, <<"a", "b", "c", "d", "e", "f", "g", "h">>}

\* the sequences of up to n user messages
RECURSIVE HistoriesUpTo(_)
HistoriesUpTo(n) ==
    IF n = 0 THEN {<<>>}
    ELSE LET shorter == HistoriesUpTo(n - 1)
         IN  shorter \cup {Append(history, ConversationMessage("user", content, "")) :
                              history \in shorter, content \in TrimContents}

\* the last trim: its name, its argument and the history it was given
TrimCall(name, argument, before) ==
    [pc |-> name, argument |-> argument, before |-> before]

InitTrim ==
    /\ InitCoordinator
    /\ policy_checker_ = DocDefault
    /\ query = NoQuery
    /\ stdin = <<>>
    /\ InitTools
    /\ \E history \in HistoriesUpTo(MaxTrimMessages) :
          conversation_manager_ = Manager(generate_session_id(0), history, "")
    /\ session_files = [id \in SessionIds |-> NoFile]
    /\ current_provider_ = ""
    /\ InitAdapter

\* ConversationManager::trim_to_token_limit(max_tokens)
TrimToTokenLimit ==
    /\ \E max_tokens \in 0..MaxTokens :
          /\ conversation_manager_' = trim_to_token_limit(conversation_manager_, max_tokens)
          /\ query' = TrimCall("trim_to_token_limit", max_tokens,
                               conversation_manager_.conversation_history_)
    /\ UNCHANGED <<session_files, current_provider_, nonConvVars>>

\* ConversationManager::trim_to_last_n_messages(n)
TrimToLastN ==
    /\ \E n \in 0..MaxTrimMessages :
          /\ conversation_manager_' = trim_to_last_n_messages(conversation_manager_, n)
          /\ query' = TrimCall("trim_to_last_n_messages", n,
                               conversation_manager_.conversation_history_)
    /\ UNCHANGED <<session_files, current_provider_, nonConvVars>>

NextTrim ==
    \/ TrimToTokenLimit
    \/ TrimToLastN

SpecTrim == InitTrim /\ [][NextTrim]_vars

\* the estimate of the newest count messages of a history
RECURSIVE estimate_of_newest(_, _)
estimate_of_newest(history, count) ==
    IF count = 0 THEN 0
    ELSE (Len(history[Len(history) - count + 1].content) \div 4)
            + estimate_of_newest(history, count - 1)

\* the newest count messages of a history
newest(history, count) == SubSeq(history, (Len(history) - count) + 1, Len(history))

\* the largest number of newest messages whose estimate is within a budget
most_that_fit(history, budget) ==
    CHOOSE count \in 0..Len(history) :
       /\ estimate_of_newest(history, count) <= budget
       /\ \A more \in (count + 1)..Len(history) : estimate_of_newest(history, more) > budget

\* the number of newest messages the budget admits when a message is
\* admitted as long as the messages newer than it stay below the budget
most_below(history, budget) ==
    CHOOSE count \in 0..Len(history) :
       /\ \A fewer \in 0..(count - 1) : estimate_of_newest(history, fewer) < budget
       /\ count < Len(history) => estimate_of_newest(history, count) >= budget

\* C24: trim_to_token_limit(T) leaves the newest messages, as many as fit
\* the budget T at len(content)/4 tokens a message, and none older; the
\* message that reaches the budget may count as fitting or not.
TrimKeepsNewestThatFit ==
    (query.pc = "trim_to_token_limit")
       => \/ conversation_manager_.conversation_history_
                = newest(query.before, most_that_fit(query.before, query.argument))
          \/ conversation_manager_.conversation_history_
                = newest(query.before, most_below(query.before, query.argument))

(***************************************************************************)
(* The adapter's choice of provider (ProviderFactory, LLMClient): from the *)
(* environment when no provider is named, and by name otherwise.           *)
(***************************************************************************)
\* getenv: a variable is unset, or set to a value that may be empty
Unset == [set |-> FALSE, value |-> <<>>]
Value(v) == [set |-> TRUE, value |-> v]

\* the environment variables the providers read
EnvironmentVariables ==
    {"ANTHROPIC_API_KEY", "OPENAI_API_KEY", "GEMINI_API_KEY", "MISTRAL_API_KEY"}

\* the environments the adapter may be started in
Environments == [EnvironmentVariables -> {Unset, Value(<<>>), Value(<<"k">>)}]

\* key && strlen(key) > 0
has_key(environment, variable) ==
    environment[variable].set /\ Len(environment[variable].value) > 0

\* what a construction or detection comes to: a provider, or a throw with
\* the environment variables its message names
Chosen(provider) == [threw |-> FALSE, provider |-> provider, names |-> {}]
Throws(names) == [threw |-> TRUE, provider |-> "", names |-> names]

\* detection that looks at OPENAI_API_KEY first
detect_openai_first(environment) ==
    IF has_key(environment, "OPENAI_API_KEY") THEN Chosen("openai")
    ELSE IF has_key(environment, "ANTHROPIC_API_KEY") THEN Chosen("anthropic")
    ELSE IF has_key(environment, "GEMINI_API_KEY") THEN Chosen("gemini")
    ELSE IF has_key(environment, "MISTRAL_API_KEY") THEN Chosen("mistral")
    ELSE Throws(EnvironmentVariables)

\* ProviderFactory::detect_available_provider
detect_available_provider(environment) ==
    IF has_key(environment, "ANTHROPIC_API_KEY") THEN Chosen("anthropic")
    ELSE IF has_key(environment, "OPENAI_API_KEY") THEN Chosen("openai")
    ELSE IF has_key(environment, "GEMINI_API_KEY") THEN Chosen("gemini")
    ELSE IF has_key(environment, "MISTRAL_API_KEY") THEN Chosen("mistral")
    ELSE Throws(EnvironmentVariables)

\* ProviderFactory::create_provider with the provider's get_api_key_env_var:
\* the variable of the provider of that name, "" for a name it does not know
get_api_key_env_var(provider_name) ==
    IF provider_name = "openai" THEN "OPENAI_API_KEY"
    ELSE IF provider_name = "anthropic" THEN "ANTHROPIC_API_KEY"
    ELSE IF provider_name = "gemini" THEN "GEMINI_API_KEY"
    ELSE IF provider_name = "mistral" THEN "MISTRAL_API_KEY"
    ELSE ""

\* LLMClient::get_api_key_for_provider followed by initialize_provider
initialize_provider(environment, provider_name) ==
    LET env_var == get_api_key_env_var(provider_name)
    IN  IF env_var = "" THEN Throws({})
        ELSE IF ~has_key(environment, env_var) THEN Throws({env_var})
        ELSE Chosen(provider_name)

\* LLMClient::LLMClient(): the provider is detected
LLMClient_detecting(environment) ==
    LET detected == detect_available_provider(environment)
    IN  IF detected.threw THEN detected
        ELSE initialize_provider(environment, detected.provider)

\* the names an adapter may be asked for
NamedProviders == {"openai", "anthropic", "gemini", "mistral", "chatgpt"}

\* the last construction: the environment and what it came to
Construction(name, environment, asked, chose) ==
    [pc |-> name, environment |-> environment, asked |-> asked, chose |-> chose]

InitDetect ==
    /\ InitCoordinator
    /\ policy_checker_ = DocDefault
    /\ \E environment \in Environments :
          query = Construction("environment", environment, "", Throws({}))
    /\ stdin = <<>>
    /\ InitTools
    /\ InitConversation
    /\ InitAdapter

\* the adapter is started: LLMClient llm_client
StartAdapter ==
    /\ query' = Construction("LLMClient()", query.environment, "",
                             LLMClient_detecting(query.environment))
    /\ UNCHANGED <<nonToolVars, toolVars>>

\* a client is made for a provider by name, with the key from the environment
StartNamed ==
    /\ \E provider_name \in NamedProviders :
          query' = Construction("LLMClient(provider_name)", query.environment, provider_name,
                                initialize_provider(query.environment, provider_name))
    /\ UNCHANGED <<nonToolVars, toolVars>>

NextDetect ==
    \/ StartAdapter
    \/ StartNamed

SpecDetect == InitDetect /\ [][NextDetect]_vars

\* the order in which detection is to look at the variables
DetectionOrder ==
    <<"ANTHROPIC_API_KEY", "OPENAI_API_KEY", "GEMINI_API_KEY", "MISTRAL_API_KEY">>

\* the adapter each variable stands for
AdapterOf ==
    [variable \in EnvironmentVariables |->
        CASE variable = "ANTHROPIC_API_KEY" -> "anthropic"
          [] variable = "OPENAI_API_KEY" -> "openai"
          [] variable = "GEMINI_API_KEY" -> "gemini"
          [] variable = "MISTRAL_API_KEY" -> "mistral"]

\* C26: an adapter started without a provider chooses the adapter of the
\* first of ANTHROPIC_API_KEY, OPENAI_API_KEY, GEMINI_API_KEY and
\* MISTRAL_API_KEY, in that order, that is set to a non-empty value, and
\* when none is, it fails with an error that names all four.
DetectsFirstNonEmptyKey ==
    (query.pc = "LLMClient()")
       => LET nonempty == {i \in 1..4 : /\ query.environment[DetectionOrder[i]].set
                                        /\ query.environment[DetectionOrder[i]].value # <<>>}
          IN  IF nonempty = {}
              THEN /\ query.chose.threw
                   /\ query.chose.names = {DetectionOrder[i] : i \in 1..4}
              ELSE /\ ~query.chose.threw
                   /\ \E first \in nonempty :
                         /\ \A i \in nonempty : first <= i
                         /\ query.chose.provider = AdapterOf[DetectionOrder[first]]

\* ANTHROPIC_API_KEY is set to the empty string, OPENAI_API_KEY and
\* GEMINI_API_KEY have values, and the adapter started with openai
DetectsFirstNonEmptyKeyWitness ==
    /\ query.pc = "LLMClient()"
    /\ query.environment["ANTHROPIC_API_KEY"] = Value(<<>>)
    /\ query.environment["OPENAI_API_KEY"] = Value(<<"k">>)
    /\ query.environment["GEMINI_API_KEY"] = Value(<<"k">>)
    /\ query.chose = Chosen("openai")

\* C27: typed at the prompt, /session new starts a new session, /session
\* load <id> loads the session of that id, and /session list, like
\* /session alone, lists the stored sessions.
SessionCommandsDoAsTyped ==
    (query.pc = "handle_session_command")
       => /\ (query.line = <<"/", "s", "e", "s", "s", "i", "o", "n", " ", "n", "e", "w">>) => query.did = "new"
          /\ (query.line = <<"/", "s", "e", "s", "s", "i", "o", "n", " ", "l", "o", "a", "d", " ", "s", "0">>)
                => (query.did = "load" /\ query.session_id = <<"s", "0">>)
          /\ (query.line = <<"/", "s", "e", "s", "s", "i", "o", "n", " ", "l", "o", "a", "d", " ", "s", "1">>)
                => (query.did = "load" /\ query.session_id = <<"s", "1">>)
          /\ (query.line \in {<<"/", "s", "e", "s", "s", "i", "o", "n">>, <<"/", "s", "e", "s", "s", "i", "o", "n", " ", "l", "i", "s", "t">>}) => query.did = "list"

(***************************************************************************)
(* The assistant's texts interpreted one after the other                   *)
(* (parse_and_execute_todo_operations on the todo store).                  *)
(***************************************************************************)
\* the texts an assistant sends
ParseTexts ==
    {<<PlainText, AddTodoCall(<<"A">>, <<"x">>), AddTodoCall(<<"B">>, <<"y">>), ListTodosCall>>,
     <<AddTodoCall(<<"A">>, <<"x">>), PlainText, AddTodoCall(<<"A">>, <<"x">>)>>,
     <<AddTodoCall(<<>>, <<"x">>)>>,
     <<ListTodosCall>>,
     <<PlainText, MarkCompleteCall(1)>>,
     <<MarkCompleteCall(2), MarkCompleteCall(1)>>,
     <<AddTodoCall(<<"B">>, <<"y">>), MarkCompleteCall(1), ListTodosCall>>,
     <<DeleteTodoCall(1)>>}

\* the number of add_todo expressions of a text
adds_of(text) == Len(SelectSeq(text, LAMBDA piece : piece.kind = "add_todo"))

\* the last text: as it came, as it was rewritten, whether the call threw,
\* and the store and the next id the call found
ParseCall(text, rewritten, threw, before, first_id) ==
    [pc |-> "parse_and_execute_todo_operations", text |-> text, rewritten |-> rewritten,
     threw |-> threw, before |-> before, first_id |-> first_id]

InitParse ==
    /\ InitCoordinator
    /\ policy_checker_ = DocDefault
    /\ query = NoQuery
    /\ stdin = <<>>
    /\ InitTools
    /\ InitConversation
    /\ InitAdapter

\* an assistant's text is interpreted
ParseResponse ==
    /\ \E llm_response \in ParseTexts, now \in Times :
          /\ Len(todos_) + adds_of(llm_response) <= MaxStore
          /\ next_id_ + adds_of(llm_response) - 1 <= MaxId
          /\ LET parsed == parse_and_execute_todo_operations(llm_response, now)
             IN  /\ todos_' = parsed.todos
                 /\ next_id_' = parsed.next_id
                 /\ issued' = parsed.issued
                 /\ query' = ParseCall(llm_response, parsed.text, parsed.threw, todos_, next_id_)
    /\ UNCHANGED nonStoreVars

\* TodoManager::clear_todos between two texts
ParseClear ==
    /\ clear_todos
    /\ query' = NoQuery
    /\ UNCHANGED nonStoreVars

NextParse ==
    \/ ParseResponse
    \/ ParseClear

SpecParse == InitParse /\ [][NextParse]_vars

\* the kinds of the pieces of a text
kinds_of(text) == {text[i].kind : i \in 1..Len(text)}

\* C28: every add_todo("title", "description") of a text with non-empty
\* titles inserts exactly one todo, in the order of the text and with
\* consecutive ids, each is replaced by "**Added:** title", and a
\* list_todos() of the same text is replaced by a list that enumerates the
\* store after all insertions, in store order.
EveryAddTodoInsertsOneAndListComesLast ==
    (/\ query.pc = "parse_and_execute_todo_operations"
     /\ kinds_of(query.text) \subseteq {"text", "add_todo", "list_todos"}
     /\ \A i \in 1..Len(query.text) :
           query.text[i].kind = "add_todo" => query.text[i].title # <<>>)
       => LET adds == SelectSeq(query.text, LAMBDA piece : piece.kind = "add_todo")
              old == Len(query.before)
          IN  /\ ~query.threw
              /\ Len(todos_) = old + Len(adds)
              /\ SubSeq(todos_, 1, old) = query.before
              /\ \A k \in 1..Len(adds) :
                    /\ old + k <= Len(todos_)
                    /\ todos_[old + k].id = query.first_id + k - 1
                    /\ todos_[old + k].title = adds[k].title
                    /\ todos_[old + k].description = adds[k].description
              /\ \A i \in 1..Len(query.text) :
                    /\ query.text[i].kind = "add_todo"
                          => query.rewritten[i] = Added(query.text[i].title)
                    /\ query.text[i].kind = "list_todos"
                          => /\ query.rewritten[i].kind = "**Current Todos:**"
                             /\ Len(query.rewritten[i].todos) = Len(todos_)
                             /\ \A k \in 1..Len(todos_) :
                                   /\ k <= Len(query.rewritten[i].todos)
                                   /\ query.rewritten[i].todos[k].id = todos_[k].id
                                   /\ query.rewritten[i].todos[k].title = todos_[k].title

\* C29: a mark_complete(id) for a todo that exists sets it to completed and
\* is replaced by the report of success, and it is replaced by "not found"
\* only when no todo has that id.
MarkCompleteReportsSuccessOrNotFound ==
    (/\ query.pc = "parse_and_execute_todo_operations"
     /\ kinds_of(query.text) \subseteq {"text", "mark_complete"})
       => \A i \in 1..Len(query.text) :
             (query.text[i].kind = "mark_complete")
                => LET id == query.text[i].id
                       existed == \E k \in 1..Len(query.before) : query.before[k].id = id
                   IN  /\ existed
                          => /\ query.rewritten[i] = Completed(id)
                             /\ \E k \in 1..Len(todos_) :
                                   todos_[k].id = id /\ todos_[k].status = "completed"
                       /\ (query.rewritten[i] = NotFound(id)) => ~existed

(***************************************************************************)
(* The batch of execute_todos as a caller of the control calls on another  *)
(* thread sees it: the three stores at its start are three steps, and a    *)
(* control call may come between any two steps of the call.                *)
(***************************************************************************)
\* execute_todos, its start up to the first store: the snapshot of the
\* pending items and execution_state_ = RUNNING
execute_todos_set_running ==
    /\ pc = "idle"
    /\ get_pending_todos(todos_) # <<>>
    /\ execution_state_' = "RUNNING"
    /\ batch' = [kind |-> "all", queue |-> get_pending_todos(todos_), idx |-> 1]
    /\ pc' = "clear_stop"
    /\ result' = "none"
    /\ UNCHANGED <<should_stop_execution_, should_pause_execution_, policy_checker_,
                   todoVars, planVars, reqVars>>

\* execute_todos, should_stop_execution_ = false at its start
execute_todos_clear_stop ==
    /\ pc = "clear_stop"
    /\ should_stop_execution_' = FALSE
    /\ pc' = "clear_pause"
    /\ UNCHANGED <<execution_state_, should_pause_execution_, policy_checker_, todoVars,
                   planVars, reqVars, batch, result>>

\* execute_todos, should_pause_execution_ = false at its start
execute_todos_clear_pause ==
    /\ pc = "clear_pause"
    /\ should_pause_execution_' = FALSE
    /\ pc' = "check_stop"
    /\ UNCHANGED <<execution_state_, should_stop_execution_, policy_checker_, todoVars,
                   planVars, reqVars, batch, result>>

SetRunning == execute_todos_set_running /\ Idle
ClearStop == execute_todos_clear_stop /\ Idle
ClearPause == execute_todos_clear_pause /\ Idle

NextPause ==
    \/ AddTodo
    \/ SetRunning \/ ClearStop \/ ClearPause
    \/ LoopCheckStop \/ LoopPauseWait \/ LoopCheckStop2
    \/ BeginItem \/ RunItem \/ EndItem \/ LoopReset
    \/ Pause \/ Resume \/ Stop \/ Cancel

SpecPause == Init /\ [][NextPause]_vars

\* a pause is in force
pause_in_force == should_pause_execution_ /\ execution_state_ = "PAUSED"

\* C30 as stated: while a pause is in force the batch loop starts no item,
\* whenever the pause was issued.
NoItemStartsWhilePauseInForce ==
    [][(pc = "begin_item" /\ pc' = "run_item") => ~pause_in_force]_vars

\* C30: at the pause check before each item, a pause in force holds the
\* loop: it stays at the check and starts no item until the pause is
\* cleared by resume or a stop is requested; every item of the batch starts
\* after such a check has found no pause in force and the check of
\* should_stop after it has found no stop.  A pause issued after the check
\* is met at the check before the next item.
PauseCheckHoldsTheLoop ==
    [][/\ (pc = "pause_wait" /\ pause_in_force /\ pc' # pc)
             => (should_stop_execution_ /\ pc' = "check_stop2")
       /\ (pc' = "check_stop2" /\ pc # pc')
             => (pc = "pause_wait" /\ (~pause_in_force \/ should_stop_execution_))
       /\ (pc' = "begin_item" /\ pc # pc')
             => (pc = "check_stop2" /\ ~should_stop_execution_)
       /\ (pc = "pause_wait" /\ pause_in_force) => todos_' = todos_]_vars

\* the first item of a batch of two is completed, a pause is in force and
\* the loop stands at the pause check before the second item, which is
\* still pending
PauseCheckHoldsTheLoopWitness ==
    /\ pc = "pause_wait"
    /\ pause_in_force
    /\ batch.kind = "all"
    /\ batch.idx = 2
    /\ status_of(todos_, batch.queue[1].id) = "completed"
    /\ status_of(todos_, batch.queue[2].id) = "pending"

(***************************************************************************)
(* What interpreting an assistant reply may set off.                       *)
(***************************************************************************)
\* the batches parse_and_execute_todo_operations starts on execute_next(),
\* execute_all() and execute_todo(<id>) in a reply
ResponseBatches == {"resp_next", "resp_all", "resp_todo"}

\* C31: interpreting an assistant reply never executes a todo: no request
\* goes to the file tool or to the bash tool on behalf of a reply.
InterpretingNeverExecutes ==
    batch.kind \in ResponseBatches => (file_requests = <<>> /\ bash_requests = <<>>)

(***************************************************************************)
(* The replies of a chat interpreted one after the other, with titles and  *)
(* descriptions that spell expressions themselves                          *)
(* (Coordinator::request_chat_from_llm_with_history).                      *)
(***************************************************************************)
\* the replies of the model
EchoTexts ==
    {<<AddTodoCall(<<"d", "e", "l", "e", "t", "e", "_", "t", "o", "d", "o", "(", "2", ")">>, <<"x">>)>>,
     <<AddTodoCall(<<"B">>, <<"m", "a", "r", "k", "_", "c", "o", "m", "p", "l", "e", "t", "e", "(", "1", ")">>)>>,
     <<PlainText, AddTodoCall(<<"C">>, <<"y">>)>>,
     <<ListTodosCall>>,
     <<MarkCompleteCall(2), PlainText>>,
     <<DeleteTodoCall(1)>>}

\* the last reply: as it came, as the chat returns it, whether the call
\* threw, and the store and the next id the call found
EchoCall(text, rewritten, threw, before, first_id) ==
    [pc |-> "request_chat_from_llm_with_history", text |-> text, rewritten |-> rewritten,
     threw |-> threw, before |-> before, first_id |-> first_id]

\* a reply of the model comes back through the chat
ChatReply ==
    /\ \E llm_response \in EchoTexts, now \in Times :
          /\ Len(todos_) + adds_of(llm_response) <= MaxStore
          /\ next_id_ + adds_of(llm_response) - 1 <= MaxId
          /\ LET parsed == request_chat_from_llm_with_history(llm_response, now)
             IN  /\ todos_' = parsed.todos
                 /\ next_id_' = parsed.next_id
                 /\ issued' = parsed.issued
                 /\ query' = EchoCall(llm_response, parsed.text, parsed.threw, todos_, next_id_)
    /\ UNCHANGED nonStoreVars

NextEcho ==
    \/ ChatReply
    \/ ParseClear

SpecEcho == InitParse /\ [][NextEcho]_vars

\* the expressions present in a text as it came: its pieces, and what the
\* titles and descriptions of its add_todo expressions spell
RECURSIVE present_in(_)
present_in(text) ==
    IF text = <<>> THEN {}
    ELSE {Head(text)}
            \cup {spelled_in(Head(text).title)[k] : k \in 1..Len(spelled_in(Head(text).title))}
            \cup {spelled_in(Head(text).description)[k] :
                     k \in 1..Len(spelled_in(Head(text).description))}
            \cup present_in(Tail(text))

\* the status a todo has in a store, "gone" when it is not there
status_in(todos, id) ==
    IF find_todo(todos, id) = 0 THEN "gone" ELSE todos[find_todo(todos, id)].status

\* C32: what a reply changes in the todo store is caused by expressions
\* present in the reply as it came: a todo is deleted only by a
\* delete_todo of its id, completed only by a mark_complete of its id, and
\* no more todos are added than the reply has add_todo expressions; the text
\* a replacement puts in is not executed.
OnlyOriginalExpressionsExecuted ==
    query.pc = "request_chat_from_llm_with_history"
       => /\ next_id_ - query.first_id <= adds_of(query.text)
          /\ \A id \in 1..MaxId :
                LET was == IF id >= query.first_id /\ id < next_id_ THEN "pending"
                           ELSE status_in(query.before, id)
                    is == status_in(todos_, id)
                IN  /\ (was # "gone" /\ is = "gone")
                          => DeleteTodoCall(id) \in present_in(query.text)
                    /\ (was # "gone" /\ is # "gone" /\ is # was)
                          => MarkCompleteCall(id) \in present_in(query.text)

(***************************************************************************)
(* A chat line and a plan request on their way through the adapter         *)
(* service (llm_adapter main) and back.                                    *)
(***************************************************************************)
\* a request as NNGLLMClient sends it: the prompt, chat_mode and, when the
\* requester has one, its provider ("" when the member is left out)
Request(prompt, chat_mode, provider) ==
    [sent |-> TRUE, prompt |-> prompt, chat_mode |-> chat_mode, provider |-> provider]

\* a reply: its bytes, and, for the record, whether the call to the model
\* had failed
Reply(data, failed) == [sent |-> TRUE, data |-> data, failed |-> failed]

\* the reply of the catch block
error_response == <<"{", "\"", "c", "o", "m", "m", "a", "n", "d", "\"", ":", " ", "\"", "W", "r", "i", "t", "e", "F", "i", "l", "e", "\"", ",", " ", "\"", "p", "a", "t", "h", "\"", ":", " ", "\"", "\"", ",", " ", "\"", "c", "o", "n", "t", "e", "n", "t", "\"", ":", " ", "\"", "\"", "}">>

\* MessageHandler::serialize_command of the plan the model gave
serialize_command(path) == <<"{", "W", "r", "i", "t", "e", "F", "i", "l", "e", ",">> \o path \o <<"}">>

\* what the model answers to a chat
ModelAnswers == {<<"o", "k">>, <<"E", "r", "r", "o", "r", ":", " ", "n", "o">>}

\* the environments the adapter service is started in
KeysSet(variables) ==
    [variable \in EnvironmentVariables |->
        IF variable \in variables THEN Value(<<"k">>) ELSE Unset]
AdapterEnvironments ==
    {KeysSet({"ANTHROPIC_API_KEY"}), KeysSet({"ANTHROPIC_API_KEY", "OPENAI_API_KEY"}),
     KeysSet({"OPENAI_API_KEY", "GEMINI_API_KEY"})}

\* LLMClient llm_client in main: the client of the detected provider
LLMClient(environment) ==
    [up |-> TRUE, provider_ |-> LLMClient_detecting(environment).provider,
     environment |-> environment]

\* LLMClient::set_provider: a throw leaves the client as it was
LLMClient_set_provider(client, provider_name) ==
    IF initialize_provider(client.environment, provider_name).threw
    THEN [threw |-> TRUE, client |-> client]
    ELSE [threw |-> FALSE, client |-> [client EXCEPT !.provider_ = provider_name]]

\* what the try block of the service loop comes to
Handled(threw, failed, client) == [threw |-> threw, failed |-> failed, client |-> client]

\* the model is called under the provider of the request, and the client is
\* switched back after the call has returned
with_override(original_provider, switched, model_ok) ==
    IF switched.threw THEN Handled(TRUE, FALSE, switched.client)
    ELSE IF ~model_ok THEN Handled(TRUE, TRUE, switched.client)
    ELSE Handled(FALSE, FALSE,
                 LLMClient_set_provider(switched.client, original_provider).client)

\* the try block for a request, chat or plan: get_chat_response and
\* get_plan_from_llm throw when the call to the model fails
handle_llm_request(client, request, model_ok) ==
    IF request.provider # ""
    THEN with_override(client.provider_, LLMClient_set_provider(client, request.provider),
                       model_ok)
    ELSE Handled(~model_ok, ~model_ok, client)

\* the service loop, once around, for a try block that has come to handled:
\* the reply is sent; after a throw the catch block frees the request a
\* second time, which the process may or may not survive
serve(handled, data, survives) ==
    IF ~handled.threw
    THEN /\ llm_client' = handled.client
         /\ llm_socket' = [request |-> NoMessage, reply |-> Reply(data, FALSE)]
    ELSE IF survives
    THEN /\ llm_client' = handled.client
         /\ llm_socket' = [request |-> NoMessage,
                           reply |-> Reply(error_response, handled.failed)]
    ELSE /\ llm_client' = [handled.client EXCEPT !.up = FALSE]
         /\ llm_socket' = [request |-> NoMessage, reply |-> NoMessage]

\* the last line of the shell: what was typed, what came back, whether it
\* joined the history, whether a call had failed, whether an error was shown
ChatTurn(name, line, response, appended, failed, error) ==
    [pc |-> name, line |-> line, response |-> response, appended |-> appended,
     failed |-> failed, error |-> error]

\* the chat lines typed
ChatInputs == {ChatInput, <<"y", "o">>}

InitChat ==
    /\ InitCoordinator
    /\ policy_checker_ = DocDefault
    /\ query = NoQuery
    /\ stdin = <<>>
    /\ InitTools
    /\ InitConversation
    /\ llm_socket = NoExchange
    /\ \E environment \in AdapterEnvironments : llm_client = LLMClient(environment)

\* what a chat line leaves alone
chatFrame == <<policy_checker_, todoVars, ctlVars, planVars, reqVars, batch, result, stdin,
               toolVars, session_files, current_provider_>>

\* CLIInterface::handle_command for a chat line, as far as nng_send in
\* NNGLLMClient::request_chat: the line joins the history and the request
\* goes out with the prompt alone; a send that fails is caught by
\* run_with_conversation_history, which answers "Error: ..."
ChatSend ==
    /\ pc = "idle"
    /\ conversation_manager_.alive
    /\ chat_mode_
    /\ ~llm_socket.request.sent /\ ~llm_socket.reply.sent
    /\ Len(conversation_manager_.conversation_history_) + 2 <= MaxMessages
    /\ \E line \in ChatInputs, send_ok \in BOOLEAN :
          /\ conversation_manager_' = add_user_message(conversation_manager_, line)
          /\ IF send_ok
             THEN /\ llm_socket' = [request |-> Request(line, TRUE, current_provider_),
                                    reply |-> NoMessage]
                  /\ pc' = "request_chat"
                  /\ query' = ChatTurn("request_chat", line, <<>>, FALSE, FALSE, FALSE)
             ELSE /\ UNCHANGED <<llm_socket, pc>>
                  /\ query' = ChatTurn("handle_command", line, <<"E", "r", "r", "o", "r", ":", " ", "s", "e", "n", "d">>, FALSE, TRUE,
                                       TRUE)
    /\ UNCHANGED <<chatFrame, llm_client>>

\* the rest of the chat line, from nng_recv on: the reply is the response
\* (the replies here spell no todo expression, and interpreting them leaves
\* them as they are), and it joins the history unless it is empty or starts
\* with "Error:"
ChatReceive ==
    /\ pc = "request_chat"
    /\ llm_socket.reply.sent
    /\ LET response == llm_socket.reply.data
           kept == response # <<>> /\ Find(response, <<"E", "r", "r", "o", "r", ":">>) # 0
       IN  /\ conversation_manager_' =
                 IF kept
                 THEN add_assistant_message(conversation_manager_, response, current_provider_)
                 ELSE conversation_manager_
           /\ query' = ChatTurn("handle_command", query.line, response, kept,
                                llm_socket.reply.failed, FALSE)
    /\ llm_socket' = NoExchange
    /\ pc' = "idle"
    /\ UNCHANGED <<chatFrame, llm_client>>

\* NNGLLMClient::request_plan as far as nng_send
PlanSend ==
    /\ pc = "idle"
    /\ conversation_manager_.alive
    /\ ~llm_socket.request.sent /\ ~llm_socket.reply.sent
    /\ llm_socket' = [request |-> Request(PromptNote, FALSE, current_provider_),
                      reply |-> NoMessage]
    /\ pc' = "request_plan"
    /\ query' = ChatTurn("request_plan", PromptNote, <<>>, FALSE, FALSE, FALSE)
    /\ UNCHANGED <<chatFrame, llm_client, conversation_manager_>>

\* NNGLLMClient::request_plan from nng_recv on
PlanReceive ==
    /\ pc = "request_plan"
    /\ llm_socket.reply.sent
    /\ query' = ChatTurn("plan", query.line, llm_socket.reply.data, FALSE,
                         llm_socket.reply.failed, FALSE)
    /\ llm_socket' = NoExchange
    /\ pc' = "idle"
    /\ UNCHANGED <<chatFrame, llm_client, conversation_manager_>>

\* the service loop of the adapter, once around
Serve ==
    /\ llm_client.up
    /\ llm_socket.request.sent
    /\ \E model_ok \in BOOLEAN, answer \in ModelAnswers, survives \in BOOLEAN :
          serve(handle_llm_request(llm_client, llm_socket.request, model_ok),
                IF llm_socket.request.chat_mode THEN answer
                ELSE serialize_command(<<"s", "/", "a">>),
                survives)
    /\ UNCHANGED <<query, pc, chatFrame, conversation_manager_>>

\* the shell is started, and a provider is typed between two lines
ChatConstruct == pc = "idle" /\ Construct
ChatTypeProvider == pc = "idle" /\ TypeProvider

NextChat ==
    \/ ChatConstruct
    \/ ChatTypeProvider
    \/ ChatSend
    \/ ChatReceive
    \/ PlanSend
    \/ PlanReceive
    \/ Serve

SpecChat == InitChat /\ [][NextChat]_vars

\* C33: when the call to the model, or the call between the processes, of a
\* chat line fails, the line is given up: an error is shown and no
\* assistant message joins the history.
FailedTurnAbandoned ==
    (query.pc = "handle_command" /\ query.failed) => (query.error /\ ~query.appended)

\* the contents of the messages of a history, oldest first
contents_of(history) == [i \in 1..Len(history) |-> history[i].content]

\* C34: the request sent to the model for a chat line carries the session's
\* history: every message of the history, the line just typed included, is
\* in the request.
RequestCarriesHistory ==
    (pc = "request_chat" /\ llm_socket.request.sent)
       => \A i \in 1..Len(conversation_manager_.conversation_history_) :
             Find(llm_socket.request.prompt,
                  contents_of(conversation_manager_.conversation_history_)[i]) # NPOS

\* a step of the service loop that takes a request and leaves the service up
served == llm_socket.request.sent /\ ~llm_socket'.request.sent /\ llm_client'.up

\* C37: a provider named in a request is used for that request only: once
\* the request has been handled, whether the call to the model succeeded or
\* failed, the service has the provider it had before.
OverrideIsTemporary ==
    [][served => llm_client'.provider_ = llm_client.provider_]_vars

\* C40: the adapter service sends one reply for every request it takes, on
\* the path of success and on every path of error, and is there for the
\* next request.
OneReplyForEveryRequest ==
    [][(llm_socket.request.sent /\ ~llm_socket'.request.sent)
          => (llm_socket'.reply.sent /\ llm_client'.up)]_vars

\* C36: once a batch is cancelled the execution state is CANCELLED and
\* stays CANCELLED, which is what the status display reports, until a new
\* batch is started.
CancelledUntilNewBatch ==
    [][execution_state_ = "CANCELLED"
          => (execution_state_' = "CANCELLED"
                 \/ (pc = "idle" /\ execution_state_' = "RUNNING"))]_vars

(***************************************************************************)
(* Loading session files that this run did not write.  The conversations   *)
(* directory outlives the run, and load_session reads whatever document    *)
(* stands under the name it is given.                                      *)
(***************************************************************************)
\* a message of a document that lacks its "role"
NoRoleMessage == [content |-> ChatInput, provider |-> ""]

\* the documents found in the directory: a session as an earlier run wrote
\* it, a document whose second message lacks its role, and a document
\* whose only message lacks it
StoredDocuments ==
    {[exists |-> TRUE, session_id |-> id, messages |-> messages, last_provider |-> "gemini"] :
        id \in SessionIds,
        messages \in {<<ConversationMessage("user", <<"y", "o">>, "")>>,
                      <<ConversationMessage("user", <<"y", "o">>, ""), NoRoleMessage>>,
                      <<NoRoleMessage>>}}

\* a document stands in the directory under a session's name
FindDocument ==
    /\ conversation_manager_.alive
    /\ \E j \in StoredDocuments :
          /\ session_files' = [session_files EXCEPT ![j.session_id] = j]
          /\ query' = ConversationCall("document", <<>>, "", j.session_id, TRUE)
    /\ UNCHANGED <<conversation_manager_, current_provider_, nonConvVars>>

NextLoad ==
    \/ Construct
    \/ ChatBriefly
    \/ FindDocument
    \/ LoadSession

SpecLoad == InitSession /\ [][NextLoad]_vars

\* C38: a load_session call that returns false leaves the current session
\* unchanged: the session id and the message sequence are the same as
\* before the call.
FailedLoadLeavesSession ==
    [][(query'.pc = "load_session" /\ ~query'.done)
          => /\ conversation_manager_'.session_id_ = conversation_manager_.session_id_
             /\ conversation_manager_'.conversation_history_
                   = conversation_manager_.conversation_history_]_vars

\* a new session was started by this step and the start went through
starts_session ==
    /\ conversation_manager_.alive
    /\ conversation_manager_'.alive
    /\ query'.done
    /\ \/ query'.pc = "start_new_session"
       \/ query'.pc = "handle_session_command" /\ query'.did = "new"

\* C39: two sessions started at different moments of one run never share a
\* session id, so saving a later session never overwrites the stored file
\* of an earlier session: the id a new session is given is not the id of
\* the session before it, and no file is stored under it.
SessionIdsNeverShared ==
    [][starts_session
          => /\ conversation_manager_'.session_id_ # conversation_manager_.session_id_
             /\ ~session_files'[conversation_manager_'.session_id_].exists]_vars

(***************************************************************************)
(* The output of the command line and the directory taken from it          *)
(* (BashTool::execute_unix_command after pclose).                          *)
(***************************************************************************)
MaxOutputLines == 3

\* std::string pwd_marker
pwd_marker == <<"_", "_", "P", "W", "D", "_", "M", "A", "R", "K", "E", "R", "_", "_">>

\* s.rfind(c, pos): the last 0-based position <= pos that holds c, or NPOS
RFindCharFrom(s, c, pos) ==
    LET hits == {p \in 0..(Len(s) - 1) : p <= pos /\ s[p + 1] = c}
    IN  IF hits = {} THEN NPOS
        ELSE CHOOSE p \in hits : \A q \in hits : p >= q

\* s.erase(pos, n)
Erase(s, pos, n) == Substr(s, 0, pos) \o SubstrFrom(s, pos + n)

\* what the command line writes to the pipe: the command's own output, and
\* then the line of echo "__PWD_MARKER__$(pwd)"
piped(command_output, pwd) == command_output \o pwd_marker \o pwd \o <<"\n">>

\* the directory and the output of a result
Extracted(pwd_after_execution, stdout_output) ==
    [pwd_after_execution |-> pwd_after_execution, stdout_output |-> stdout_output]

\* the extraction of execute_unix_command with capture_context_ on: the
\* marker is looked for from the start of the output, the directory is the
\* text from behind it to the end of its line, and that line is erased
extract_pwd(piped_output) ==
    LET pwd_pos == Find(piped_output, pwd_marker)
        pwd_start == pwd_pos + Len(pwd_marker)
        found_end == FindFrom(piped_output, <<"\n">>, pwd_start)
        pwd_end == IF found_end = NPOS THEN Len(piped_output) ELSE found_end
        found_start == RFindCharFrom(piped_output, "\n", pwd_pos)
        line_start == IF found_start = NPOS THEN 0 ELSE found_start + 1
    IN  IF pwd_pos = NPOS THEN Extracted(<<>>, piped_output)
        ELSE Extracted(Substr(piped_output, pwd_start, pwd_end - pwd_start),
                       Erase(piped_output, line_start,
                             (pwd_end - line_start)
                                + (IF pwd_end < Len(piped_output) THEN 1 ELSE 0)))

\* the lines a command of the model writes; a command may write the text
\* of the marker itself, as echo, cat and grep do
OutputLines ==
    {<<"a", "\n">>, <<"b", "\n">>, pwd_marker \o <<"/", "x", "\n">>, pwd_marker \o <<"\n">>}

\* the outputs of up to n lines
RECURSIVE OutputsOf(_)
OutputsOf(n) ==
    IF n = 0 THEN {<<>>}
    ELSE OutputsOf(n - 1) \cup {written \o line : written \in OutputsOf(n - 1), line \in OutputLines}

\* the directories the shell may be in when the command ends
FinalDirectories == {CWD, CWD \o <<"/", "s">>}

\* the command line ran: what it wrote, where it ended, and the result
PipeRead(name, command_output, pwd, extracted) ==
    [pc |-> name, command_output |-> command_output, pwd |-> pwd,
     pwd_after_execution |-> extracted.pwd_after_execution,
     stdout_output |-> extracted.stdout_output]

InitMarker ==
    /\ InitCoordinator
    /\ policy_checker_ = DocDefault
    /\ \E command_output \in OutputsOf(MaxOutputLines), pwd \in FinalDirectories :
          query = PipeRead("pclose", command_output, pwd, Extracted(<<>>, <<>>))
    /\ stdin = <<>>
    /\ InitTools
    /\ InitConversation
    /\ InitAdapter

\* the rest of execute_unix_command, once the pipe is closed
ExtractPwd ==
    /\ query.pc = "pclose"
    /\ query' = PipeRead("execute_unix_command", query.command_output, query.pwd,
                         extract_pwd(piped(query.command_output, query.pwd)))
    /\ UNCHANGED <<nonToolVars, toolVars>>

NextMarker == ExtractPwd

SpecMarker == InitMarker /\ [][NextMarker]_vars

\* C35: the post-execution working directory recorded for a command is the
\* shell's actual final directory, and exactly the sentinel line is removed
\* from the returned output, even when the command's own output contains
\* the sentinel text.
SentinelUnambiguous ==
    query.pc = "execute_unix_command"
       => /\ query.pwd_after_execution = query.pwd
          /\ query.stdout_output = query.command_output

=============================================================================
